---------------------------- MODULE Spec2Model ----------------------------
(***************************************************************************)
(* Event-impact attribution and forecast-adjustment engine of the macro    *)
(* investment analyzer: attribution decomposer, event identifier, impact   *)
(* estimator, correlation classifier, commodity price projector, factor    *)
(* adjustment propagator, event persistence, concurrent adjustment runs,    *)
(* analogous-event lookup, decision analysis and the pipeline driver.       *)
(*                                                                         *)
(* The Python code computes in floating point.  The model computes in      *)
(* exact rationals <<numerator, denominator>> (denominator > 0, lowest     *)
(* terms), so every comparison against a threshold is the comparison the   *)
(* code makes on the real numbers its floats stand for.                    *)
(***************************************************************************)
EXTENDS Integers, Sequences, FiniteSets, TLC

VARIABLES attr, ident, impact, corr, pred, kw, adj, store, runs, similar, inv, main

vars == <<attr, ident, impact, corr, pred, kw, adj, store, runs,
         similar, inv, main>>

(***************************************************************************)
(* Exact rational arithmetic.                                              *)
(***************************************************************************)
Abs(x) == IF x < 0 THEN -x ELSE x

RECURSIVE GCD(_, _)
GCD(a, b) == IF b = 0 THEN a ELSE GCD(b, a % b)

Q(n, d) ==
    LET g == GCD(Abs(n), Abs(d))
        s == IF d < 0 THEN -1 ELSE 1
    IN  <<(s * n) \div g, (s * d) \div g>>

RZero == Q(0, 1)
ROne == Q(1, 1)
RAdd(a, b) == Q(a[1] * b[2] + b[1] * a[2], a[2] * b[2])
RSub(a, b) == Q(a[1] * b[2] - b[1] * a[2], a[2] * b[2])
RMul(a, b) == Q(a[1] * b[1], a[2] * b[2])
RDiv(a, b) == Q(a[1] * b[2], a[2] * b[1])
RNeg(a) == <<-a[1], a[2]>>
RAbs(a) == <<Abs(a[1]), a[2]>>
RLt(a, b) == a[1] * b[2] < b[1] * a[2]
RLe(a, b) == a[1] * b[2] <= b[1] * a[2]
RMin(a, b) == IF RLt(b, a) THEN b ELSE a
RMax(a, b) == IF RLt(a, b) THEN b ELSE a
RIsZero(a) == a[1] = 0

RECURSIVE RSum(_)
RSum(s) == IF s = <<>> THEN RZero ELSE RAdd(Head(s), RSum(Tail(s)))

RECURSIVE SetToSeq(_)
SetToSeq(S) ==
    IF S = {} THEN <<>>
    ELSE LET x == CHOOSE y \in S : TRUE IN <<x>> \o SetToSeq(S \ {x})

Idle == [pc |-> "idle"]

(***************************************************************************)
(* Attribution decomposer (models/attribution_model.py).                   *)
(***************************************************************************)
AttributionKeys ==
    {"macro_events", "sector_performance", "company_specific",
     "commodity_specific", "market_sentiment", "unexplained"}

\* _get_sector_performance: sector return (percent) of the stock's sector,
\* 0.0 for a symbol with no sector.
GetSectorPerformance(stock_symbol) ==
    CASE stock_symbol \in {"AAPL", "MSFT"} -> Q(15, 1)
      [] stock_symbol = "AMZN" -> Q(10, 1)
      [] stock_symbol \in {"GOOGL", "META"} -> Q(8, 1)
      [] OTHER -> RZero

\* _get_company_events: the importances of the company events of a symbol.
GetCompanyEvents(stock_symbol) ==
    CASE stock_symbol = "AAPL" -> <<3, 4>>
      [] stock_symbol = "MSFT" -> <<2, 3>>
      [] OTHER -> <<>>

\* _get_commodity_specific_factors(...)['impact'].
GetCommoditySpecificImpact(commodity_name) ==
    CASE commodity_name = "oil" -> Q(7, 10)
      [] commodity_name = "gold" -> Q(6, 10)
      [] commodity_name = "copper" -> Q(4, 10)
      [] commodity_name = "wheat" -> Q(3, 10)
      [] commodity_name = "corn" -> Q(5, 10)
      [] OTHER -> Q(5, 10)

RECURSIVE SumInts(_)
SumInts(s) == IF s = <<>> THEN 0 ELSE Head(s) + SumInts(Tail(s))

\* The macro_events contribution (lines 272-287).
MacroContribution(decision, n_events, excess_return) ==
    IF n_events = 0 \/ RIsZero(decision.macro_adjustment) THEN RZero
    ELSE LET expected_impact == RMul(decision.macro_adjustment, Q(1, 2))
         IN  IF \/ (RLt(RZero, expected_impact) /\ RLt(RZero, excess_return))
                \/ (RLt(expected_impact, RZero) /\ RLt(excess_return, RZero))
             THEN LET m == RMin(RMul(RAbs(excess_return), Q(4, 10)),
                                RAbs(expected_impact))
                  IN  IF RLt(excess_return, RZero) THEN RNeg(m) ELSE m
             ELSE RNeg(RMin(RMul(RAbs(excess_return), Q(2, 10)),
                            RAbs(expected_impact)))

\* The sector_performance contribution (lines 289-299).
SectorContribution(decision, benchmark_return) ==
    IF decision.asset_type = "stock"
    THEN LET sector_performance == GetSectorPerformance(decision.asset_symbol)
         IN  IF RIsZero(sector_performance) THEN RZero
             ELSE RMul(RSub(sector_performance, benchmark_return), Q(3, 10))
    ELSE RZero

\* The company/commodity specific contribution (lines 301-319).
SpecificContribution(decision, excess_return) ==
    CASE decision.asset_type = "stock" ->
           LET company_events == GetCompanyEvents(decision.asset_symbol)
           IN  IF company_events = <<>> THEN RZero
               ELSE RMul(RMul(excess_return, Q(4, 10)),
                         RMin(Q(SumInts(company_events), 10), ROne))
      [] decision.asset_type = "commodity" ->
           RMul(RMul(excess_return, Q(5, 10)),
                GetCommoditySpecificImpact(decision.asset_symbol))
      [] OTHER -> RZero

\* The market_sentiment contribution (lines 321-329).
SentimentContribution(sentiment_data, excess_return) ==
    IF sentiment_data.present
    THEN RMul(RMul(excess_return, Q(2, 10)), sentiment_data.impact)
    ELSE RZero

\* Mutant of ExplainedReturn: the sentiment contribution is left out of the sum.
ExplainedReturnNoSentiment(macro, sector, specific, sentiment) ==
    RAdd(RAdd(macro, sector), specific)

\* explained_return (line 332).
ExplainedReturn(macro, sector, specific, sentiment) ==
    RAdd(RAdd(RAdd(macro, sector), specific), sentiment)

\* Mutant of NoExcessReturn: the threshold is 0.001 instead of 0.01.
NoExcessReturnTighter(excess_return) == RLt(RAbs(excess_return), Q(1, 1000))

\* abs(excess_return) < 0.01 (line 264).
NoExcessReturn(excess_return) == RLt(RAbs(excess_return), Q(1, 100))

\* sum(attribution.values()).
TotalAttribution(a) == RSum([i \in 1..Cardinality(DOMAIN a) |->
                               a[SetToSeq(DOMAIN a)[i]]])

\* _perform_attribution_analysis (lines 244-351).
PerformAttributionAnalysis(decision, actual_return, benchmark_return, n_events, sentiment_data, factors) ==
    LET excess_return == RSub(actual_return, benchmark_return)
    IN  IF NoExcessReturn(excess_return)
        THEN [f \in {factors[i] : i \in DOMAIN factors} |-> RZero]
        ELSE
          LET macro == MacroContribution(decision, n_events, excess_return)
              sector == SectorContribution(decision, benchmark_return)
              specific == SpecificContribution(decision, excess_return)
              sentiment == SentimentContribution(sentiment_data, excess_return)
              explained_return == ExplainedReturn(macro, sector, specific, sentiment)
              unexplained == RSub(excess_return, explained_return)
              first ==
                [k \in AttributionKeys |->
                   CASE k = "macro_events" -> macro
                     [] k = "sector_performance" -> sector
                     [] k = "company_specific" ->
                          IF decision.asset_type = "stock" THEN specific ELSE RZero
                     [] k = "commodity_specific" ->
                          IF decision.asset_type = "commodity" THEN specific ELSE RZero
                     [] k = "market_sentiment" -> sentiment
                     [] OTHER -> unexplained]
              total_attribution == TotalAttribution(first)
          IN  IF RLt(Q(1, 100), RAbs(RSub(total_attribution, excess_return)))
              THEN [first EXCEPT !["unexplained"] =
                      RAdd(@, RSub(excess_return, total_attribution))]
              ELSE first

\* Inputs of the attribution decomposer.
MaxRelatedEvents == 2
AssetTypes == {"stock", "commodity", "bond"}
AssetSymbols == {"AAPL", "MSFT", "AMZN", "XYZ", "oil", "copper"}
MacroAdjustments == {Q(-1, 20), RZero, Q(1, 10), Q(10, 1)}
ActualReturns == {Q(-5, 1), Q(-1, 100), Q(1, 200), Q(1, 100), Q(3, 1)}
BenchmarkReturns == {RZero, Q(1, 4)}
SentimentInputs ==
    {[present |-> FALSE, impact |-> RZero]}
      \cup {[present |-> TRUE, impact |-> i] : i \in {Q(-1, 2), RZero, Q(1, 2)}}
FactorLists ==
    {<<"macro_events", "sector_performance", "company_specific",
       "commodity_specific", "market_sentiment", "unexplained">>,
     <<"macro_events", "market_sentiment">>}

\* A call of _perform_attribution_analysis with its arguments and the data its
\* helpers read.
AttrInit ==
    \E t \in AssetTypes, s \in AssetSymbols, m \in MacroAdjustments,
       n \in 0..MaxRelatedEvents, a \in ActualReturns, b \in BenchmarkReturns,
       sd \in SentimentInputs, fl \in FactorLists :
      attr = [pc |-> "call",
              decision |-> [asset_type |-> t, asset_symbol |-> s,
                            macro_adjustment |-> m],
              actual_return |-> a,
              benchmark_return |-> b,
              excess_return |-> RSub(a, b),
              n_events |-> n,
              sentiment_data |-> sd,
              factors |-> fl,
              attribution |-> <<>>]

AnalyzeAttribution ==
    /\ attr.pc = "call"
    /\ attr' = [attr EXCEPT
                  !.pc = "done",
                  !.attribution =
                     PerformAttributionAnalysis(attr.decision, attr.actual_return,
                                                attr.benchmark_return, attr.n_events,
                                                attr.sentiment_data, attr.factors)]
    /\ UNCHANGED <<ident, impact, corr, pred, kw, adj, store, runs,
                 similar, inv, main>>

InitAttr == AttrInit /\ ident = Idle /\ impact = Idle /\ corr = Idle
            /\ pred = Idle /\ kw = Idle
            /\ adj = Idle /\ store = Idle /\ runs = Idle
            /\ similar = Idle /\ inv = Idle /\ main = Idle
NextAttr == AnalyzeAttribution
SpecAttr == InitAttr /\ [][NextAttr]_vars

\* The sum of the entries of a mapping other than 'unexplained'.
OtherEntries(a) ==
    RSum([i \in 1..Cardinality(DOMAIN a \ {"unexplained"}) |->
            a[SetToSeq(DOMAIN a \ {"unexplained"})[i]]])

\* C1: whenever |excess return| >= 0.01 the values of the returned mapping sum to
\* the excess return within 0.01, and 'unexplained' is the excess return minus
\* the sum of the other entries.
C1_SumEqualsExcess ==
    (attr.pc = "done" /\ ~RLt(RAbs(attr.excess_return), Q(1, 100))) =>
       /\ RLe(RAbs(RSub(TotalAttribution(attr.attribution), attr.excess_return)),
              Q(1, 100))
       /\ "unexplained" \in DOMAIN attr.attribution
       /\ attr.attribution["unexplained"] =
            RSub(attr.excess_return, OtherEntries(attr.attribution))

C1_Witness ==
    /\ attr.pc = "done"
    /\ ~RLt(RAbs(attr.excess_return), Q(1, 100))
    /\ ~RIsZero(attr.attribution["macro_events"])
    /\ ~RIsZero(attr.attribution["market_sentiment"])
    /\ ~RIsZero(attr.attribution["sector_performance"])
    /\ ~RIsZero(attr.attribution["unexplained"])

\* C2: whenever |actual - benchmark| < 0.01 every entry of the returned mapping
\* is 0, whatever the other inputs are.
C2_ZeroBelowThreshold ==
    (attr.pc = "done" /\ RLt(RAbs(attr.excess_return), Q(1, 100))) =>
       \A k \in DOMAIN attr.attribution : RIsZero(attr.attribution[k])

C2_Witness ==
    /\ attr.pc = "done"
    /\ RLt(RAbs(attr.excess_return), Q(1, 100))
    /\ ~RIsZero(attr.excess_return)
    /\ attr.n_events > 0
    /\ ~RIsZero(attr.decision.macro_adjustment)
    /\ attr.sentiment_data.present
    /\ DOMAIN attr.attribution # {}

(***************************************************************************)
(* Event identifier (analysis/quantitative_analyzer.py).                   *)
(*                                                                         *)
(* A keyword-match record is one row of keyword_matches joined with its    *)
(* article: the keyword filter writes one row per (article, keyword) that  *)
(* matched, so one article contributes as many records to a category as it *)
(* matches keywords of that category.                                      *)
(***************************************************************************)
MaxArticles == 5
Articles == 1..MaxArticles
Keywords == {"tariff", "trade war", "interest rate"}

\* The category a configured keyword belongs to (keyword_filter.analyze_article).
KeywordCategory(keyword) ==
    IF keyword \in {"tariff", "trade war"} THEN "trade_policy" ELSE "monetary_policy"

Categories == {KeywordCategory(k) : k \in Keywords}

\* Position of a keyword in the configured keyword lists.
KeywordRank(keyword) ==
    CASE keyword = "tariff" -> 1 [] keyword = "trade war" -> 2 [] OTHER -> 3

\* Data of the stored articles: day of publication within the trailing window,
\* number of matches of a keyword in the article, polarity (in tenths).
PublishedDate(article_id) == (article_id + 1) \div 2
MatchCount(article_id, keyword) == 1 + ((article_id + KeywordRank(keyword)) % 3)
Polarity(article_id) == Q(article_id - 3, 10)

KeywordMatch(article_id, keyword) ==
    [article_id |-> article_id, keyword |-> keyword,
     keyword_category |-> KeywordCategory(keyword),
     match_count |-> MatchCount(article_id, keyword),
     published_date |-> PublishedDate(article_id)]

\* Row order of the query: ORDER BY na.published_date DESC (rows of one date in
\* storage order, by article and keyword).
RowBefore(r1, r2) ==
    \/ r1.published_date > r2.published_date
    \/ /\ r1.published_date = r2.published_date
       /\ \/ r1.article_id < r2.article_id
          \/ /\ r1.article_id = r2.article_id
             /\ KeywordRank(r1.keyword) < KeywordRank(r2.keyword)

RECURSIVE OrderRows(_)
OrderRows(rows) ==
    IF rows = {} THEN <<>>
    ELSE LET first == CHOOSE r \in rows : \A o \in rows \ {r} : RowBefore(r, o)
         IN  <<first>> \o OrderRows(rows \ {first})

\* _get_recent_keyword_matches: the rows of the trailing window.
GetRecentKeywordMatches(rows) == OrderRows(rows)

\* category_matches[category]: the records of a category, in batch order.
CategoryMatches(keyword_matches, category) ==
    SelectSeq(keyword_matches, LAMBDA m : m.keyword_category = category)

\* Categories in the order they are first met in the batch (dict insertion order).
RECURSIVE CategoryOrder(_, _)
CategoryOrder(keyword_matches, seen) ==
    IF keyword_matches = <<>> THEN <<>>
    ELSE LET c == Head(keyword_matches).keyword_category
         IN  IF c \in seen THEN CategoryOrder(Tail(keyword_matches), seen)
             ELSE <<c>> \o CategoryOrder(Tail(keyword_matches), seen \cup {c})

\* Mutant of QualifiesAsEvent: the comparison is strict.
QualifiesAsEventStrict(matches) == Len(matches) > 5

\* len(matches) >= 5 (line 92).
QualifiesAsEvent(matches) == Len(matches) >= 5

\* _get_average_sentiment: AVG(polarity) over the sentiment rows of the articles.
GetAverageSentiment(article_ids) ==
    LET ids == {article_ids[i] : i \in DOMAIN article_ids}
        rows == SetToSeq(ids)
    IN  IF ids = {} THEN RZero
        ELSE RDiv(RSum([i \in DOMAIN rows |-> Polarity(rows[i])]),
                  Q(Cardinality(ids), 1))

\* keywords[keyword]: the summed match_count of a keyword over the records.
KeywordTotal(matches, keyword) ==
    SumInts([i \in DOMAIN matches |->
               IF matches[i].keyword = keyword THEN matches[i].match_count ELSE 0])

\* Keywords in the order they are first met in the records.
RECURSIVE KeywordOrder(_, _)
KeywordOrder(matches, seen) ==
    IF matches = <<>> THEN <<>>
    ELSE LET k == Head(matches).keyword
         IN  IF k \in seen THEN KeywordOrder(Tail(matches), seen)
             ELSE <<k>> \o KeywordOrder(Tail(matches), seen \cup {k})

\* sorted(keywords.items(), key=count, reverse=True)[:5]: stable, descending.
RECURSIVE SortByTotal(_, _)
SortByTotal(matches, ks) ==
    IF ks = <<>> THEN <<>>
    ELSE LET best == CHOOSE i \in DOMAIN ks :
                       /\ \A j \in DOMAIN ks :
                            KeywordTotal(matches, ks[j]) <= KeywordTotal(matches, ks[i])
                       /\ \A j \in 1..(i - 1) :
                            KeywordTotal(matches, ks[j]) < KeywordTotal(matches, ks[i])
             rest == [j \in 1..(Len(ks) - 1) |-> IF j < best THEN ks[j] ELSE ks[j + 1]]
         IN  <<ks[best]>> \o SortByTotal(matches, rest)

TopKeywords(matches) ==
    LET sorted == SortByTotal(matches, KeywordOrder(matches, {}))
    IN  SubSeq(sorted, 1, IF Len(sorted) < 5 THEN Len(sorted) ELSE 5)

\* importance = min(5, max(1, int(len(matches) / 5))) (line 111).
Importance(matches) ==
    LET q == Len(matches) \div 5
        lo == IF q < 1 THEN 1 ELSE q
    IN  IF lo > 5 THEN 5 ELSE lo

RECURSIVE MinOf(_)
MinOf(s) == IF Len(s) = 1 THEN s[1]
            ELSE LET m == MinOf(Tail(s)) IN IF m < Head(s) THEN m ELSE Head(s)

\* The event built for a qualifying category (lines 93-130).
BuildEvent(category, matches) ==
    LET article_ids == [i \in DOMAIN matches |-> matches[i].article_id]
    IN  [event_category |-> category,
         top_keywords |-> TopKeywords(matches),
         n_articles |-> Len(matches),
         start_date |-> MinOf([i \in DOMAIN matches |-> matches[i].published_date]),
         end_date |-> "None",
         importance |-> Importance(matches),
         article_ids |-> article_ids,
         sentiment |-> GetAverageSentiment(article_ids)]

RECURSIVE EventsOf(_, _)
EventsOf(keyword_matches, categories) ==
    IF categories = <<>> THEN <<>>
    ELSE LET matches == CategoryMatches(keyword_matches, Head(categories))
             rest == EventsOf(keyword_matches, Tail(categories))
         IN  IF QualifiesAsEvent(matches)
             THEN <<BuildEvent(Head(categories), matches)>> \o rest
             ELSE rest

\* identify_macro_events (lines 61-135).
IdentifyMacroEvents(enabled, rows) ==
    IF ~enabled THEN <<>>
    ELSE LET keyword_matches == GetRecentKeywordMatches(rows)
         IN  IF keyword_matches = <<>> THEN <<>>
             ELSE EventsOf(keyword_matches, CategoryOrder(keyword_matches, {}))

\* A run of the identifier over the rows stored for the trailing window.
IdentInit ==
    \E rows \in SUBSET {KeywordMatch(a, k) : a \in Articles, k \in Keywords},
       enabled \in BOOLEAN :
      ident = [pc |-> "call", enabled |-> enabled, rows |-> rows,
               identified_events |-> <<>>]

IdentifyEvents ==
    /\ ident.pc = "call"
    /\ ident' = [ident EXCEPT
                   !.pc = "done",
                   !.identified_events = IdentifyMacroEvents(ident.enabled, ident.rows)]
    /\ UNCHANGED <<attr, impact, corr, pred, kw, adj, store, runs,
                 similar, inv, main>>

InitIdent == IdentInit /\ attr = Idle /\ impact = Idle /\ corr = Idle
             /\ pred = Idle /\ kw = Idle
            /\ adj = Idle /\ store = Idle /\ runs = Idle
            /\ similar = Idle /\ inv = Idle /\ main = Idle
NextIdent == IdentifyEvents
SpecIdent == InitIdent /\ [][NextIdent]_vars

\* The records and the distinct documents a category has in the stored rows.
GroupSize(category) ==
    Cardinality({r \in ident.rows : r.keyword_category = category})
DistinctDocuments(category) ==
    Cardinality({r.article_id : r \in {x \in ident.rows : x.keyword_category = category}})
EventsFor(category) ==
    {i \in DOMAIN ident.identified_events :
        ident.identified_events[i].event_category = category}

\* C4: an event is emitted for a category only if at least 5 distinct documents
\* contributed records of that category.
C4_EventNeedsFiveDocuments ==
    ident.pc = "done" =>
       \A c \in Categories : EventsFor(c) # {} => DistinctDocuments(c) >= 5

SimilarLimit == 10
MaxShift == 1
Indicators == <<"gdp", "interest_rate", "inflation", "commodity:general">>
IndicatorSet == {Indicators[i] : i \in DOMAIN Indicators}

None == [has |-> FALSE, v |-> 0]
Some(v) == [has |-> TRUE, v |-> v]

\* Indicator values 30 days before and after a prior event, as
\* _get_indicator_value finds them: both present ...
MatchedObservations ==
    <<[before |-> Some(100), after |-> Some(110)],
      [before |-> Some(100), after |-> Some(90)],
      [before |-> Some(0), after |-> Some(5)],
      [before |-> Some(200), after |-> Some(201)]>>
\* ... or at least one of them absent (no row within 7 days of the date).
UnmatchedObservations ==
    <<[before |-> None, after |-> Some(110)],
      [before |-> Some(100), after |-> None],
      [before |-> None, after |-> None]>>

\* The observations of one indicator around the n_similar prior events, of which
\* the first `matched` have both values.
Observations(n_similar, matched, shift) ==
    [j \in 1..n_similar |->
       IF j <= matched
       THEN MatchedObservations[((j + shift) % Len(MatchedObservations)) + 1]
       ELSE UnmatchedObservations[(j % Len(UnmatchedObservations)) + 1]]

\* Mutant of ChangeRate: a before value of 0 is not guarded, the change is the
\* after value.
ChangeRateUnguarded(before_value, after_value) ==
    IF before_value # 0 THEN Q(after_value - before_value, before_value)
    ELSE Q(after_value, 1)

\* change_rate of one prior event (line 459).
ChangeRate(before_value, after_value) ==
    IF before_value # 0 THEN Q(after_value - before_value, before_value) ELSE RZero

\* indicator_changes (lines 450-460).
RECURSIVE IndicatorChanges(_)
IndicatorChanges(observations) ==
    IF observations = <<>> THEN <<>>
    ELSE LET o == Head(observations)
             rest == IndicatorChanges(Tail(observations))
         IN  IF o.before.has /\ o.after.has
             THEN <<ChangeRate(o.before.v, o.after.v)>> \o rest
             ELSE rest

\* Mutant of Confidence: the cap at 0.95 is missing.
ConfidenceUncapped(n) == RAdd(Q(1, 2), Q(n, 20))

\* confidence = min(0.5 + len(indicator_changes) / 20, 0.95) (line 470).
Confidence(n) == RMin(RAdd(Q(1, 2), Q(n, 20)), Q(95, 100))

\* The record built from a list of changes (lines 466-487).
BuildImpact(indicator, indicator_changes) ==
    LET avg_change == RDiv(RSum(indicator_changes), Q(Len(indicator_changes), 1))
    IN  [impact_target |-> indicator,
         impact_type |-> IF RLt(Q(1, 100), RAbs(avg_change)) THEN "direct" ELSE "indirect",
         impact_value |-> avg_change,
         confidence |-> Confidence(Len(indicator_changes)),
         time_horizon |-> "short_term"]

\* Mutant of AnalyzeIndicatorImpact: no guard for an empty list of changes, the
\* record is built with impact 0 and the confidence of 0 samples.
AnalyzeIndicatorImpactUnguarded(indicator, observations) ==
    LET indicator_changes == IndicatorChanges(observations)
    IN  IF indicator_changes = <<>>
        THEN <<[impact_target |-> indicator, impact_type |-> "indirect",
                impact_value |-> RZero, confidence |-> Confidence(0),
                time_horizon |-> "short_term"]>>
        ELSE <<BuildImpact(indicator, indicator_changes)>>

\* _analyze_indicator_impact (lines 436-487): None or the impact record.
AnalyzeIndicatorImpact(indicator, observations) ==
    LET indicator_changes == IndicatorChanges(observations)
    IN  IF indicator_changes = <<>> THEN <<>>
        ELSE <<BuildImpact(indicator, indicator_changes)>>

\* impacts of analyze_event_impact (lines 330-351): the records that are not None,
\* in the order gdp, interest_rate, inflation, commodity:general.
RECURSIVE CollectImpacts(_, _, _, _)
CollectImpacts(indicators, n_similar, matched, shift) ==
    IF indicators = <<>> THEN <<>>
    ELSE AnalyzeIndicatorImpact(Head(indicators),
                                Observations(n_similar, matched[Head(indicators)], shift))
           \o CollectImpacts(Tail(indicators), n_similar, matched, shift)

\* analyze_event_impact (lines 304-358): the returned list.
AnalyzeEventImpact(mode, n_similar, matched, shift) ==
    IF mode # "ok" \/ n_similar = 0 THEN <<>>
    ELSE CollectImpacts(Indicators, n_similar, matched, shift)

\* _save_event_impact for each returned record (lines 354-355): the rows added to
\* event_impacts.
SaveEventImpacts(stored, impacts) == stored \o impacts

\* A call of analyze_event_impact: the analyzer is disabled, the event id is not
\* stored, or the event is found with n_similar analogous prior events.
ImpactInit ==
    \/ \E mode \in {"disabled", "no_event"} :
         impact = [pc |-> "call", mode |-> mode, n_similar |-> 0,
                   matched |-> [i \in IndicatorSet |-> 0], shift |-> 0,
                   impacts |-> <<>>, event_impacts |-> <<>>]
    \/ \E n \in 0..SimilarLimit, shift \in 0..MaxShift :
         \E matched \in [IndicatorSet -> 0..n] :
            impact = [pc |-> "call", mode |-> "ok", n_similar |-> n,
                      matched |-> matched, shift |-> shift,
                      impacts |-> <<>>, event_impacts |-> <<>>]

AnalyzeImpact ==
    /\ impact.pc = "call"
    /\ LET impacts == AnalyzeEventImpact(impact.mode, impact.n_similar,
                                         impact.matched, impact.shift)
       IN  impact' = [impact EXCEPT
                        !.pc = "done",
                        !.impacts = impacts,
                        !.event_impacts = SaveEventImpacts(@, impacts)]
    /\ UNCHANGED <<attr, ident, corr, pred, kw, adj, store, runs,
                 similar, inv, main>>

InitImpact == ImpactInit /\ attr = Idle /\ ident = Idle /\ corr = Idle
              /\ pred = Idle /\ kw = Idle
            /\ adj = Idle /\ store = Idle /\ runs = Idle
            /\ similar = Idle /\ inv = Idle /\ main = Idle
NextImpact == AnalyzeImpact
SpecImpact == InitImpact /\ [][NextImpact]_vars

ImpactsFor(records, indicator) ==
    {i \in DOMAIN records : records[i].impact_target = indicator}

\* C6: the confidence of an impact built from n matched events is
\* min(0.5 + n/20, 0.95); it never exceeds 0.95, it is non-decreasing in n and
\* strictly increasing while below the cap (n in 1..10).
C6_ConfidenceMonotoneCapped ==
    impact.pc = "done" =>
       \A i \in DOMAIN impact.impacts :
          LET n == impact.matched[impact.impacts[i].impact_target]
              c == impact.impacts[i].confidence
              expected == IF 10 + n < 19 THEN Q(10 + n, 20) ELSE Q(19, 20)
          IN  /\ n \in 1..SimilarLimit
              /\ c = expected
              /\ RLe(c, Q(95, 100))
              /\ \A j \in DOMAIN impact.impacts :
                    LET m == impact.matched[impact.impacts[j].impact_target]
                        d == impact.impacts[j].confidence
                    IN  /\ n <= m => RLe(c, d)
                        /\ (n < m /\ RLt(c, Q(95, 100))) => RLt(c, d)

C6_Witness ==
    /\ impact.pc = "done"
    /\ \E i, j, k \in DOMAIN impact.impacts :
          /\ impact.matched[impact.impacts[i].impact_target] = 3
          /\ impact.matched[impact.impacts[j].impact_target] = 9
          /\ impact.matched[impact.impacts[k].impact_target] = 10
          /\ RLt(impact.impacts[i].confidence, impact.impacts[j].confidence)
          /\ impact.impacts[j].confidence = impact.impacts[k].confidence

\* C7: an indicator for which no analogous prior event has both values gets no
\* impact record: none is returned and none is persisted, in particular no record
\* with impact 0 and confidence 0.5.
C7_NoImpactFromZeroMatches ==
    impact.pc = "done" =>
       \A ind \in IndicatorSet :
          impact.matched[ind] = 0 =>
             /\ AnalyzeIndicatorImpact(ind,
                   Observations(impact.n_similar, 0, impact.shift)) = <<>>
             /\ ImpactsFor(impact.impacts, ind) = {}
             /\ ImpactsFor(impact.event_impacts, ind) = {}

C7_Witness ==
    /\ impact.pc = "done"
    /\ impact.mode = "ok"
    /\ impact.n_similar >= 3
    /\ impact.matched["gdp"] = 0
    /\ impact.matched["inflation"] > 0
    /\ ImpactsFor(impact.event_impacts, "gdp") = {}
    /\ ImpactsFor(impact.event_impacts, "inflation") # {}

(***************************************************************************)
(* Correlation analyzer (analysis/historical_analyzer.py).                 *)
(*                                                                         *)
(* The p-value is the result of scipy's one-sample t-test; the model takes *)
(* it as any of the values the test can return for the sample: NaN for a   *)
(* single change or for changes that are all 0, 0 for equal non-zero       *)
(* changes, 1 for a mean of 0, a value strictly between otherwise.         *)
(***************************************************************************)
MaxCorrEvents == 3

\* Window means of the indicator before and after one historical event; an
\* absent mean is an empty window.
WindowData ==
    {[pre |-> None, post |-> Some(100)],
     [pre |-> Some(100), post |-> None],
     [pre |-> Some(100), post |-> Some(80)],
     [pre |-> Some(100), post |-> Some(92)],
     [pre |-> Some(100), post |-> Some(95)],
     [pre |-> Some(100), post |-> Some(100)],
     [pre |-> Some(100), post |-> Some(105)],
     [pre |-> Some(100), post |-> Some(106)],
     [pre |-> Some(100), post |-> Some(108)],
     [pre |-> Some(100), post |-> Some(110)],
     [pre |-> Some(100), post |-> Some(130)]}

RECURSIVE SeqsUpTo(_, _)
SeqsUpTo(S, n) ==
    IF n = 0 THEN {<<>>}
    ELSE LET shorter == SeqsUpTo(S, n - 1)
         IN  shorter \cup {Append(s, x) : s \in {t \in shorter : Len(t) = n - 1}, x \in S}

\* changes (lines 445-468): (post - pre) / pre of the events with both windows.
RECURSIVE Changes(_)
Changes(windows) ==
    IF windows = <<>> THEN <<>>
    ELSE LET w == Head(windows)
             rest == Changes(Tail(windows))
         IN  IF w.pre.has /\ w.post.has
             THEN <<Q(w.post.v - w.pre.v, w.pre.v)>> \o rest
             ELSE rest

NaN == [nan |-> TRUE, v |-> RZero]
PValue(v) == [nan |-> FALSE, v |-> v]

\* stats.ttest_1samp(changes, 0): the p-values the test can return (line 475).
TTestPValues(changes) ==
    LET mean == RDiv(RSum(changes), Q(Len(changes), 1))
        equal == \A i \in DOMAIN changes : changes[i] = changes[1]
    IN  IF Len(changes) = 1 THEN {NaN}
        ELSE IF equal THEN (IF RIsZero(mean) THEN {NaN} ELSE {PValue(RZero)})
        ELSE IF RIsZero(mean) THEN {PValue(ROne)}
        ELSE {PValue(Q(1, 100)), PValue(Q(49, 1000)), PValue(Q(5, 100)),
              PValue(Q(51, 1000)), PValue(Q(1, 2))}

\* Mutant of Strength: the bounds are inclusive.
StrengthInclusive(avg_change) ==
    IF RLe(Q(1, 10), RAbs(avg_change)) THEN "strong"
    ELSE IF RLe(Q(5, 100), RAbs(avg_change)) THEN "moderate"
    ELSE "weak"

\* strength of a significant change (lines 484-489).
Strength(avg_change) ==
    IF RLt(Q(1, 10), RAbs(avg_change)) THEN "strong"
    ELSE IF RLt(Q(5, 100), RAbs(avg_change)) THEN "moderate"
    ELSE "weak"

\* direction and strength (lines 477-492).
Classify(p_value, avg_change) ==
    IF ~p_value.nan /\ RLt(p_value.v, Q(5, 100))
    THEN [correlation_direction |->
            IF RLt(RZero, avg_change) THEN "positive" ELSE "negative",
          correlation_strength |-> Strength(avg_change)]
    ELSE [correlation_direction |-> "neutral",
          correlation_strength |-> "insignificant"]

\* Mutant of AnalyzeEventMarketCorrelation: sample_size counts every historical
\* event, the skipped ones included.
AnalyzeEventMarketCorrelationCountsAll(windows, p_value) ==
    LET changes == Changes(windows)
    IN  IF windows = <<>> \/ changes = <<>> THEN <<>>
        ELSE LET avg_change == RDiv(RSum(changes), Q(Len(changes), 1))
                 class == Classify(p_value, avg_change)
             IN  <<[sample_size |-> Len(windows),
                    average_change |-> avg_change,
                    p_value |-> p_value,
                    correlation_direction |-> class.correlation_direction,
                    correlation_strength |-> class.correlation_strength]>>

\* analyze_event_market_correlation (lines 418-510): {} or the result.
AnalyzeEventMarketCorrelation(windows, p_value) ==
    LET changes == Changes(windows)
    IN  IF windows = <<>> \/ changes = <<>> THEN <<>>
        ELSE LET avg_change == RDiv(RSum(changes), Q(Len(changes), 1))
                 class == Classify(p_value, avg_change)
             IN  <<[sample_size |-> Len(changes),
                    average_change |-> avg_change,
                    p_value |-> p_value,
                    correlation_direction |-> class.correlation_direction,
                    correlation_strength |-> class.correlation_strength]>>

\* A call over the historical events of a category, with the window data of each
\* event and the p-value the t-test returns for the changes.
CorrInit ==
    \E windows \in SeqsUpTo(WindowData, MaxCorrEvents) :
       \E p \in (IF Changes(windows) = <<>> THEN {NaN}
                 ELSE TTestPValues(Changes(windows))) :
          corr = [pc |-> "call", windows |-> windows, p_value |-> p, result |-> <<>>]

AnalyzeCorrelation ==
    /\ corr.pc = "call"
    /\ corr' = [corr EXCEPT
                  !.pc = "done",
                  !.result = AnalyzeEventMarketCorrelation(corr.windows, corr.p_value)]
    /\ UNCHANGED <<attr, ident, impact, pred, kw, adj, store, runs,
                 similar, inv, main>>

InitCorr == CorrInit /\ attr = Idle /\ ident = Idle /\ impact = Idle
            /\ pred = Idle /\ kw = Idle
            /\ adj = Idle /\ store = Idle /\ runs = Idle
            /\ similar = Idle /\ inv = Idle /\ main = Idle
NextCorr == AnalyzeCorrelation
SpecCorr == InitCorr /\ [][NextCorr]_vars

\* C8: p >= 0.05 gives neutral/insignificant; p < 0.05 gives positive for a mean
\* change > 0 and negative for a mean change < 0, with strength strong for
\* |mean| > 0.10, moderate for 0.05 < |mean| <= 0.10 and weak otherwise; a mean of
\* +0.08 with p < 0.05 gives positive/moderate.
C8_CorrelationClassification ==
    (corr.pc = "done" /\ corr.result # <<>>) =>
       LET r == corr.result[1]
           p == r.p_value
           mean == r.average_change
           size == RAbs(mean)
       IN  /\ (~p.nan /\ RLe(Q(5, 100), p.v)) =>
                /\ r.correlation_direction = "neutral"
                /\ r.correlation_strength = "insignificant"
           /\ (~p.nan /\ RLt(p.v, Q(5, 100))) =>
                /\ RLt(RZero, mean) => r.correlation_direction = "positive"
                /\ RLt(mean, RZero) => r.correlation_direction = "negative"
                /\ r.correlation_strength =
                     (IF RLt(Q(1, 10), size) THEN "strong"
                      ELSE IF RLt(Q(5, 100), size) /\ RLe(size, Q(1, 10))
                           THEN "moderate" ELSE "weak")
                /\ mean = Q(8, 100) =>
                     /\ r.correlation_direction = "positive"
                     /\ r.correlation_strength = "moderate"

C8_Witness ==
    /\ corr.pc = "done"
    /\ corr.result # <<>>
    /\ corr.result[1].sample_size = 3
    /\ corr.result[1].average_change = Q(8, 100)
    /\ ~corr.result[1].p_value.nan
    /\ corr.result[1].p_value.v = Q(1, 100)
    /\ corr.result[1].correlation_direction = "positive"
    /\ corr.result[1].correlation_strength = "moderate"

(***************************************************************************)
(* Commodity price projector (models/commodity_integrator.py).             *)
(*                                                                         *)
(* predict_commodity_price computes on the parameter set returned by       *)
(* adjust_commodity_parameters.  Its outcome is "empty" (it returned {}),  *)
(* "ZeroDivisionError" (the division by a zero price elasticity raised) or *)
(* "AttributeError": after the predicted price is computed the prediction  *)
(* record calls self._calculate_prediction_confidence, which the class     *)
(* does not define, so the call raises with the values below computed.     *)
(***************************************************************************)
\* _get_current_commodity_price (lines 252-272).
GetCurrentCommodityPrice(commodity_name) ==
    CASE commodity_name = "oil" -> Q(75, 1)
      [] commodity_name = "gold" -> Q(1800, 1)
      [] commodity_name = "copper" -> Q(9000, 1)
      [] OTHER -> Q(100, 1)

\* inventory_days = inventory / (demand / 365) (line 165); demand > 0 here.
InventoryDays(inventory, demand) == RDiv(inventory, RDiv(demand, Q(365, 1)))

\* Mutant of InventoryFactor: an inventory coverage <= 0 leaves the change undamped.
InventoryFactorNeutralFallback(inventory_days) ==
    IF RLt(RZero, inventory_days)
    THEN RMax(Q(1, 2), RMin(Q(3, 2), RDiv(Q(30, 1), inventory_days)))
    ELSE ROne

\* inventory_factor (line 181).
InventoryFactor(inventory_days) ==
    IF RLt(RZero, inventory_days)
    THEN RMax(Q(1, 2), RMin(Q(3, 2), RDiv(Q(30, 1), inventory_days)))
    ELSE Q(3, 2)

\* price_change_pct before the inventory factor (line 177); elasticity # 0 here.
RawPriceChange(supply_demand_ratio, price_elasticity, seasonal_factor) ==
    RMul(RMul(RSub(RDiv(ROne, supply_demand_ratio), ROne),
              RDiv(Q(-1, 1), price_elasticity)),
         seasonal_factor)

\* Mutant of ClampPriceChange: the lower limit is -0.5, as the upper one.
ClampPriceChangeSymmetric(price_change_pct) ==
    RMax(RMin(price_change_pct, Q(1, 2)), Q(-1, 2))

\* max(min(price_change_pct, 0.5), -0.3) (line 185).
ClampPriceChange(price_change_pct) ==
    RMax(RMin(price_change_pct, Q(1, 2)), Q(-3, 10))

NoPrediction(status) ==
    [status |-> status, supply_demand_ratio |-> RZero, inventory_days |-> RZero,
     inventory_factor |-> RZero, damped_change |-> RZero,
     price_change_pct |-> RZero, current_price |-> RZero, predicted_price |-> RZero]

\* predict_commodity_price from the adjusted parameters on (lines 143-207).
PredictCommodityPrice(commodity_name, enabled, adjusted_params) ==
    LET current_price == GetCurrentCommodityPrice(commodity_name)
        supply == adjusted_params.supply
        demand == adjusted_params.demand
        inventory == adjusted_params.inventory
    IN  IF ~enabled THEN NoPrediction("empty")
        ELSE IF RLe(current_price, RZero) THEN NoPrediction("empty")
        ELSE IF RLe(supply, RZero) \/ RLe(demand, RZero) THEN NoPrediction("empty")
        ELSE IF RIsZero(adjusted_params.price_elasticity)
             THEN NoPrediction("ZeroDivisionError")
        ELSE
          LET supply_demand_ratio == RDiv(supply, demand)
              inventory_days == InventoryDays(inventory, demand)
              raw == RawPriceChange(supply_demand_ratio,
                                    adjusted_params.price_elasticity,
                                    adjusted_params.seasonal_factor)
              inventory_factor == InventoryFactor(inventory_days)
              damped == RMul(raw, inventory_factor)
              price_change_pct == ClampPriceChange(damped)
          IN  [status |-> "AttributeError",
               supply_demand_ratio |-> supply_demand_ratio,
               inventory_days |-> inventory_days,
               inventory_factor |-> inventory_factor,
               damped_change |-> damped,
               price_change_pct |-> price_change_pct,
               current_price |-> current_price,
               predicted_price |-> RMul(current_price, RAdd(ROne, price_change_pct))]

\* Adjusted parameter sets handed to the projector.
MaxElasticityDenominator == 2
Supplies == {RZero, ROne, Q(9800, 1), Q(10000, 1)}
Demands == {RZero, ROne, Q(9800, 1), Q(10000, 1)}
Inventories == {Q(-100, 1), RZero, ROne, Q(1500, 1), Q(100000, 1)}
Elasticities ==
    {Q(-3, 10), Q(-1, 100), RZero}
      \cup {Q(-1, d) : d \in 2..MaxElasticityDenominator}
      \cup {Q(1, d) : d \in 2..MaxElasticityDenominator}
SeasonalFactors == {Q(-1, 1), RZero, ROne, Q(3, 2)}
CommodityNames == {"oil", "tin"}

PredInit ==
    \E c \in CommodityNames, enabled \in BOOLEAN, s \in Supplies, d \in Demands,
       i \in Inventories, e \in Elasticities, f \in SeasonalFactors :
      pred = [pc |-> "call", commodity_name |-> c, enabled |-> enabled,
              adjusted_params |->
                [supply |-> s, demand |-> d, inventory |-> i,
                 price_elasticity |-> e, seasonal_factor |-> f],
              prediction |-> NoPrediction("none")]

PredictPrice ==
    /\ pred.pc = "call"
    /\ pred' = [pred EXCEPT
                  !.pc = "done",
                  !.prediction = PredictCommodityPrice(pred.commodity_name,
                                                       pred.enabled,
                                                       pred.adjusted_params)]
    /\ UNCHANGED <<attr, ident, impact, corr, kw, adj, store, runs,
                 similar, inv, main>>

InitPred == PredInit /\ attr = Idle /\ ident = Idle /\ impact = Idle
            /\ corr = Idle /\ kw = Idle
            /\ adj = Idle /\ store = Idle /\ runs = Idle
            /\ similar = Idle /\ inv = Idle /\ main = Idle
NextPred == PredictPrice
SpecPred == InitPred /\ [][NextPred]_vars

\* The projector got as far as computing the price change.
PriceChangeComputed ==
    /\ pred.pc = "done"
    /\ pred.prediction.status \notin {"empty", "ZeroDivisionError"}

\* C3: for supply > 0 and demand > 0 (and a computation that is defined) the
\* applied price-change fraction lies in [-0.30, 0.50], so the predicted price
\* lies between 0.70 and 1.50 times the current price.
C3_PriceChangeBounded ==
    (/\ pred.pc = "done"
     /\ pred.enabled
     /\ RLt(RZero, pred.adjusted_params.supply)
     /\ RLt(RZero, pred.adjusted_params.demand)
     /\ ~RIsZero(pred.adjusted_params.price_elasticity)) =>
       /\ PriceChangeComputed
       /\ RLe(Q(-30, 100), pred.prediction.price_change_pct)
       /\ RLe(pred.prediction.price_change_pct, Q(50, 100))
       /\ RLe(RMul(Q(70, 100), pred.prediction.current_price),
              pred.prediction.predicted_price)
       /\ RLe(pred.prediction.predicted_price,
              RMul(Q(150, 100), pred.prediction.current_price))

C3_Witness ==
    /\ PriceChangeComputed
    /\ RLt(pred.prediction.damped_change, Q(-30, 100))
    /\ pred.prediction.price_change_pct = Q(-30, 100)
    /\ pred.prediction.predicted_price = RMul(Q(70, 100), pred.prediction.current_price)

\* C9: before clamping the change is ((1/(supply/demand)) - 1) * (-1/elasticity)
\* * seasonal_factor times an inventory factor, which is clamp(30/inventory_days,
\* 0.5, 1.5) for inventory_days = inventory/(demand/365) > 0 and 1.5 otherwise, and
\* always lies in [0.5, 1.5]; supply 9800, demand 10000, elasticity -0.3,
\* seasonal 1.0, inventory 1500 give about +0.0373.
C9_PriceChangeFormula ==
    PriceChangeComputed =>
       LET a == pred.adjusted_params
           days == Q(a.inventory[1] * 365 * a.demand[2], a.inventory[2] * a.demand[1])
           thirty == Q(30 * days[2], days[1])
           factor == IF days[1] > 0
                     THEN (IF RLt(thirty, Q(1, 2)) THEN Q(1, 2)
                           ELSE IF RLt(Q(3, 2), thirty) THEN Q(3, 2) ELSE thirty)
                     ELSE Q(3, 2)
           gap == Q(a.demand[1] * a.supply[2] - a.supply[1] * a.demand[2],
                    a.demand[2] * a.supply[1])
           slope == Q(-a.price_elasticity[2], a.price_elasticity[1])
           expected == RMul(RMul(RMul(gap, slope), a.seasonal_factor), factor)
       IN  /\ pred.prediction.inventory_days = days
           /\ pred.prediction.inventory_factor = factor
           /\ RLe(Q(1, 2), pred.prediction.inventory_factor)
           /\ RLe(pred.prediction.inventory_factor, Q(3, 2))
           /\ pred.prediction.damped_change = expected
           /\ (/\ a.supply = Q(9800, 1) /\ a.demand = Q(10000, 1)
               /\ a.price_elasticity = Q(-3, 10) /\ a.seasonal_factor = ROne
               /\ a.inventory = Q(1500, 1)) =>
                 /\ RLe(Q(3725, 100000), pred.prediction.damped_change)
                 /\ RLt(pred.prediction.damped_change, Q(3735, 100000))

C9_Witness ==
    /\ PriceChangeComputed
    /\ pred.adjusted_params.supply = Q(9800, 1)
    /\ pred.adjusted_params.demand = Q(10000, 1)
    /\ pred.adjusted_params.price_elasticity = Q(-3, 10)
    /\ pred.adjusted_params.seasonal_factor = ROne
    /\ pred.adjusted_params.inventory = Q(1500, 1)
    /\ pred.prediction.damped_change = Q(400, 10731)

(***************************************************************************)
(* Keyword-derived adjustment (models/commodity_integrator.py).            *)
(*                                                                         *)
(* An event carries what the resolver reads about it from the store: its   *)
(* category and importance, the distinct keywords of its linked articles   *)
(* (_get_event_keywords) and the average polarity of their sentiment rows  *)
(* (_get_event_sentiment, None when there is no row).                      *)
(***************************************************************************)
MaxKeywordEvents == 2

\* _get_commodity_keywords (lines 619-630).
GetCommodityKeywords(commodity_name) ==
    CASE commodity_name = "oil" ->
           <<"oil", "crude", "petroleum", "OPEC", "refinery", "energy">>
      [] commodity_name = "gold" -> <<"gold", "bullion", "precious metal", "safe haven">>
      [] commodity_name = "copper" -> <<"copper", "metal", "industrial metal", "mining">>
      [] commodity_name = "wheat" -> <<"wheat", "grain", "agriculture", "food">>
      [] commodity_name = "corn" -> <<"corn", "maize", "grain", "feed">>
      [] OTHER -> <<commodity_name>>

\* relevance: the event keywords found in the commodity keywords (lines 412-415).
Relevance(keywords, commodity_keywords) ==
    SumInts([i \in DOMAIN keywords |->
               IF \E j \in DOMAIN commodity_keywords : commodity_keywords[j] = keywords[i]
               THEN 1 ELSE 0])

\* Mutant of EventKeywordImpact: the keyword-overlap ratio is not applied.
EventKeywordImpactNoOverlapRatio(event, commodity_keywords) ==
    LET relevance == Relevance(event.keywords, commodity_keywords)
    IN  IF relevance > 0 /\ event.sentiment.has
        THEN RMul(event.sentiment.v, Q(event.importance, 5))
        ELSE RZero

\* The impact one trade-policy event adds to total_impact (lines 405-424).
EventKeywordImpact(event, commodity_keywords) ==
    LET relevance == Relevance(event.keywords, commodity_keywords)
    IN  IF relevance > 0 /\ event.sentiment.has
        THEN RMul(RMul(event.sentiment.v, Q(event.importance, 5)),
                  Q(relevance, Len(commodity_keywords)))
        ELSE RZero

\* _get_adjustment_from_keywords (lines 381-430).
GetAdjustmentFromKeywords(factor_name, events, commodity_name) ==
    IF factor_name # "trade_policy" THEN RZero
    ELSE LET trade_events == SelectSeq(events, LAMBDA e : e.event_category = "trade_policy")
             commodity_keywords == GetCommodityKeywords(commodity_name)
             total_impact ==
               RSum([i \in DOMAIN trade_events |->
                       EventKeywordImpact(trade_events[i], commodity_keywords)])
         IN  IF trade_events = <<>> THEN RZero
             ELSE RMax(RMin(total_impact, Q(2, 10)), Q(-2, 10))

\* The events supplied to the resolver.
EventKeywordLists == {<<>>, <<"tariff">>, <<"oil", "tariff", "crude">>, <<"tin">>}
EventPolarities == {None, Some(Q(-1, 1)), Some(Q(-2, 10)), Some(ROne)}
SuppliedEvents ==
    {[event_category |-> "trade_policy", importance |-> i, keywords |-> k, sentiment |-> p] :
        i \in {4, 5}, k \in EventKeywordLists, p \in EventPolarities}
      \cup {[event_category |-> "monetary_policy", importance |-> 5,
             keywords |-> k, sentiment |-> Some(ROne)] :
              k \in {<<"oil", "tariff", "crude">>, <<"tin">>}}

KwInit ==
    \E f \in {"trade_policy", "global_supply"}, c \in CommodityNames,
       events \in SeqsUpTo(SuppliedEvents, MaxKeywordEvents) :
      kw = [pc |-> "call", factor_name |-> f, commodity_name |-> c,
            events |-> events, adjustment |-> RZero]

ResolveKeywords ==
    /\ kw.pc = "call"
    /\ kw' = [kw EXCEPT
                !.pc = "done",
                !.adjustment = GetAdjustmentFromKeywords(kw.factor_name, kw.events,
                                                         kw.commodity_name)]
    /\ UNCHANGED <<attr, ident, impact, corr, pred, adj, store, runs,
                 similar, inv, main>>

InitKw == KwInit /\ attr = Idle /\ ident = Idle /\ impact = Idle
          /\ corr = Idle /\ pred = Idle
            /\ adj = Idle /\ store = Idle /\ runs = Idle
            /\ similar = Idle /\ inv = Idle /\ main = Idle
NextKw == ResolveKeywords
SpecKw == InitKw /\ [][NextKw]_vars

\* The keywords an event shares with the whitelist of the commodity.
Overlap(e) ==
    {e.keywords[i] : i \in DOMAIN e.keywords}
      \cap {GetCommodityKeywords(kw.commodity_name)[j] :
              j \in DOMAIN GetCommodityKeywords(kw.commodity_name)}

\* The events that count: trade_policy, sharing a keyword, with a sentiment score.
Contributing ==
    {i \in DOMAIN kw.events :
        /\ kw.events[i].event_category = "trade_policy"
        /\ Overlap(kw.events[i]) # {}
        /\ kw.events[i].sentiment.has}

RECURSIVE WeightedPolarity(_)
WeightedPolarity(I) ==
    IF I = {} THEN RZero
    ELSE LET i == CHOOSE x \in I : TRUE
             e == kw.events[i]
         IN  RAdd(Q(e.sentiment.v[1] * e.importance * Cardinality(Overlap(e)),
                    e.sentiment.v[2] * 5 * Len(GetCommodityKeywords(kw.commodity_name))),
                  WeightedPolarity(I \ {i}))

\* clamp(S, -0.2, 0.2) for S the sum over the contributing events.
ClampedWeightedPolarity ==
    LET S == WeightedPolarity(Contributing)
    IN  IF RLt(Q(2, 10), S) THEN Q(2, 10)
        ELSE IF RLt(S, Q(-2, 10)) THEN Q(-2, 10) ELSE S

\* The single event of the scenario: importance 4, polarity -0.2, overlap 2/6.
ScenarioEvent ==
    /\ Len(kw.events) = 1
    /\ Contributing = {1}
    /\ kw.events[1].importance = 4
    /\ kw.events[1].sentiment.v = Q(-2, 10)
    /\ Cardinality(Overlap(kw.events[1])) = 2
    /\ Len(GetCommodityKeywords(kw.commodity_name)) = 6

MaxFactors == 2
MaxAdjEvents == 2

EmptyDict == [x \in {} |-> RZero]

\* dict[name] = value (lines 112 and 115 of both integrators).
SetItem(dict, name, value) ==
    [x \in DOMAIN dict \cup {name} |-> IF x = name THEN value ELSE dict[x]]

\* Mutant of ParamGet: a missing name reads as 1.
ParamGetDefaultOne(params, name) ==
    IF name \in DOMAIN params THEN params[name] ELSE ROne

\* adjusted_params.get(factor_name, 0) (line 109 of both integrators).
ParamGet(params, name) ==
    IF name \in DOMAIN params THEN params[name] ELSE RZero

\* _get_original_commodity_parameters (commodity_integrator.py lines 209-250).
GetOriginalCommodityParameters(commodity_name) ==
    LET default_params ==
          [supply |-> Q(1000, 1), demand |-> Q(950, 1), inventory |-> Q(200, 1),
           production_growth |-> Q(2, 100), consumption_growth |-> Q(3, 100),
           price_elasticity |-> Q(-5, 10), seasonal_factor |-> ROne]
    IN  CASE commodity_name = "oil" ->
               [default_params EXCEPT !.supply = Q(10000, 1), !.demand = Q(9800, 1),
                                      !.inventory = Q(1500, 1),
                                      !.price_elasticity = Q(-3, 10)]
          [] commodity_name = "gold" ->
               [default_params EXCEPT !.supply = Q(3, 1), !.demand = Q(31, 10),
                                      !.inventory = Q(30, 1),
                                      !.price_elasticity = Q(-1, 10)]
          [] commodity_name = "copper" ->
               [default_params EXCEPT !.supply = Q(2000, 1), !.demand = Q(1950, 1),
                                      !.inventory = Q(300, 1),
                                      !.price_elasticity = Q(-4, 10)]
          [] OTHER -> default_params

\* _get_original_dcf_parameters (dcf_integrator.py lines 129-164).
GetOriginalDcfParameters(stock_symbol) ==
    LET default_params ==
          [discount_rate |-> Q(10, 100), growth_rate |-> Q(5, 100),
           terminal_growth_rate |-> Q(2, 100), tax_rate |-> Q(25, 100),
           risk_free_rate |-> Q(3, 100), market_risk_premium |-> Q(5, 100),
           beta |-> ROne]
    IN  CASE stock_symbol = "AAPL" ->
               [default_params EXCEPT !.growth_rate = Q(8, 100), !.beta = Q(12, 10)]
          [] stock_symbol = "MSFT" ->
               [default_params EXCEPT !.growth_rate = Q(7, 100), !.beta = Q(11, 10)]
          [] stock_symbol = "AMZN" ->
               [default_params EXCEPT !.growth_rate = Q(10, 100), !.beta = Q(13, 10)]
          [] OTHER -> default_params

\* What a resolver hands back: a value, or an exception that leaves the run.
Returns(v) == [raised |-> FALSE, v |-> v]
Raises == [raised |-> TRUE, v |-> RZero]

\* _get_commodity_trade_sensitivity (commodity_integrator.py lines 632-643).
GetCommodityTradeSensitivity(commodity_name) ==
    CASE commodity_name = "oil" -> Q(12, 10)
      [] commodity_name = "copper" -> ROne
      [] commodity_name = "gold" -> Q(4, 10)
      [] commodity_name \in {"wheat", "corn"} -> Q(7, 10)
      [] OTHER -> Q(5, 10)

\* _get_adjustment_from_world_bank (commodity_integrator.py lines 432-478);
\* trade_values are the global_trade values, most recent first.
GetAdjustmentFromWorldBank(factor_name, commodity_name, trade_values) ==
    IF factor_name # "global_supply" THEN RZero
    ELSE IF Len(trade_values) < 2 THEN RZero
    ELSE RMul(RDiv(RSub(trade_values[1], trade_values[2]), trade_values[2]),
              GetCommodityTradeSensitivity(commodity_name))

\* (values[-1] - values[0]) / values[0] if len(values) > 1 else 0 (lines 511, 515).
GrowthOver(values) ==
    IF Len(values) > 1
    THEN RDiv(RSub(values[Len(values)], values[1]), values[1])
    ELSE RZero

\* CommodityIntegrator._get_adjustment_from_economic_indicators (lines 480-524).
GetCommodityAdjustmentFromEconomicIndicators(factor_name, gdp_values, cpi_values) ==
    IF factor_name # "demand_forecast" THEN RZero
    ELSE IF gdp_values = <<>> \/ cpi_values = <<>> THEN RZero
    ELSE RSub(RMul(GrowthOver(gdp_values), Q(7, 10)),
              RMul(GrowthOver(cpi_values), Q(3, 10)))

\* CommodityIntegrator._get_event_sentiment (lines 645-684): None unless the
\* event has linked articles and their AVG(polarity) is not NULL.
GetCommodityEventSentiment(event) ==
    IF event.articles /\ event.sentiment.has THEN event.sentiment ELSE None

\* CommodityIntegrator._get_adjustment_from_analysis (lines 526-565).
GetCommodityAdjustmentFromAnalysis(factor_name, events) ==
    IF factor_name # "sentiment" THEN RZero
    ELSE LET scored == SelectSeq(events, LAMBDA e : GetCommodityEventSentiment(e).has)
             total_polarity ==
               RSum([i \in DOMAIN scored |->
                       RMul(GetCommodityEventSentiment(scored[i]).v,
                            Q(scored[i].importance, 5))])
             total_weight ==
               RSum([i \in DOMAIN scored |-> Q(scored[i].importance, 5)])
             avg_polarity == IF RLt(RZero, total_weight)
                             THEN RDiv(total_polarity, total_weight)
                             ELSE RZero
         IN  RMul(avg_polarity, Q(1, 10))

\* CommodityIntegrator._calculate_factor_adjustment (lines 350-379).
CalculateCommodityFactorAdjustment(factor_name, factor_source, events, commodity_name, market) ==
    CASE factor_source = "keyword_filter" ->
           Returns(GetAdjustmentFromKeywords(factor_name, events, commodity_name))
      [] factor_source = "world_bank" ->
           Returns(GetAdjustmentFromWorldBank(factor_name, commodity_name, market.trade))
      [] factor_source = "fred" ->
           Returns(GetCommodityAdjustmentFromEconomicIndicators(factor_name, market.gdp,
                                                                market.cpi))
      [] factor_source = "analysis" ->
           Returns(GetCommodityAdjustmentFromAnalysis(factor_name, events))
      [] OTHER -> Returns(RZero)

\* DCFIntegrator._get_event_impacts (lines 352-385): the event_impacts rows of
\* the event whose impact_target is the indicator.
GetEventImpacts(event, indicator) ==
    SelectSeq(event.impacts, LAMBDA row : row.impact_target = indicator)

\* factor_to_indicator (dcf_integrator.py lines 279-283); "" when unmapped.
FactorToIndicator(factor_name) ==
    CASE factor_name = "interest_rate" -> "interest_rates"
      [] factor_name = "gdp_growth" -> "gdp"
      [] factor_name = "inflation" -> "cpi"
      [] OTHER -> ""

\* The rows read for every event, in the order of the two loops (lines 294-302).
RECURSIVE AllEventImpacts(_, _)
AllEventImpacts(events, indicator) ==
    IF events = <<>> THEN <<>>
    ELSE GetEventImpacts(Head(events), indicator)
           \o AllEventImpacts(Tail(events), indicator)

\* DCFIntegrator._get_adjustment_from_economic_indicators (lines 266-310).
GetDcfAdjustmentFromEconomicIndicators(factor_name, events) ==
    LET indicator == FactorToIndicator(factor_name)
        rows == AllEventImpacts(events, indicator)
        total_impact ==
          RSum([i \in DOMAIN rows |-> RMul(rows[i].impact_value, rows[i].confidence)])
        total_weight == RSum([i \in DOMAIN rows |-> rows[i].confidence])
    IN  IF indicator = "" THEN RZero
        ELSE IF RLt(RZero, total_weight) THEN RDiv(total_impact, total_weight)
        ELSE RZero

\* DCFIntegrator._get_event_sentiment (lines 387-437): None when the event has
\* no linked article, otherwise the fetched row, whose avg_polarity is NULL
\* when no sentiment row exists.  A sequence of length 0 or 1.
GetDcfEventSentiment(event) ==
    IF event.articles THEN <<[avg_polarity |-> event.sentiment]>> ELSE <<>>

\* DCFIntegrator._get_adjustment_from_analysis (lines 312-350): the fetched
\* row is a non-empty dict, hence truthy; adding an avg_polarity of None to
\* total_polarity raises TypeError.
GetDcfAdjustmentFromAnalysis(factor_name, events) ==
    IF factor_name # "sentiment" THEN Returns(RZero)
    ELSE LET rows == SelectSeq(events, LAMBDA e : GetDcfEventSentiment(e) # <<>>)
             total_polarity ==
               RSum([i \in DOMAIN rows |-> GetDcfEventSentiment(rows[i])[1].avg_polarity.v])
             count == Len(rows)
             avg_polarity == IF count > 0 THEN RDiv(total_polarity, Q(count, 1))
                             ELSE RZero
         IN  IF \E i \in DOMAIN rows : ~GetDcfEventSentiment(rows[i])[1].avg_polarity.has
             THEN Raises
             ELSE Returns(RMul(avg_polarity, Q(5, 100)))

\* DCFIntegrator._calculate_factor_adjustment (lines 242-264).
CalculateDcfFactorAdjustment(factor_name, factor_source, events) ==
    CASE factor_source = "fred" ->
           Returns(GetDcfAdjustmentFromEconomicIndicators(factor_name, events))
      [] factor_source = "analysis" -> GetDcfAdjustmentFromAnalysis(factor_name, events)
      [] OTHER -> Returns(RZero)

\* The call of line 105 of both integrators for one configured factor.
CalculateFactorAdjustment(run, factor) ==
    IF run.integrator = "commodity"
    THEN CalculateCommodityFactorAdjustment(factor.name, factor.source, run.events,
                                            run.asset, run.market)
    ELSE CalculateDcfFactorAdjustment(factor.name, factor.source, run.events)

\* Mutant of IsTruthy: a zero adjustment is applied too.
IsTruthyAlways(adjustment) == TRUE

\* "if adjustment:" (line 107): a float is truthy unless it is zero.
IsTruthy(adjustment) == ~RIsZero(adjustment)

\* original_value * (1 + adjustment * factor_weight) (line 110).
AdjustedValue(original_value, adjustment, factor_weight) ==
    RMul(original_value, RAdd(ROne, RMul(adjustment, factor_weight)))

\* adjusted_params = original_params.copy() (line 95): a second dict, so that
\* writing adjusted_params leaves original_params alone.
CopyParams(original_params) ==
    [aliased |-> FALSE, original_params |-> original_params,
     adjusted_params |-> original_params]

\* The one element of a singleton set.  Only({F(x) : x \in {e}}) is F(e) with e
\* evaluated once.
Only(S) == CHOOSE x \in S : TRUE

\* What the loop body does with the resolver's result r (lines 107-122).  log
\* keeps, per configured factor, what the pass did.
ApplyAdjustment(st, factor, r) ==
    LET original_value == ParamGet(st.adjusted_params, factor.name)
        adjusted_value == AdjustedValue(original_value, r.v, factor.weight)
        applied == ~r.raised /\ IsTruthy(r.v)
        after == IF applied THEN SetItem(st.adjusted_params, factor.name, adjusted_value)
                 ELSE st.adjusted_params
        record == [original_value |-> original_value, adjusted_value |-> adjusted_value,
                   adjustment_factor |-> r.v, weight |-> factor.weight]
        entry == [factor |-> factor, raised |-> r.raised, adjustment |-> r.v,
                  applied |-> applied, before |-> st.adjusted_params, after |-> after,
                  recorded_before |-> st.adjustments,
                  recorded_after |-> IF applied
                                     THEN SetItem(st.adjustments, factor.name, record)
                                     ELSE st.adjustments,
                  original_value |-> original_value, adjusted_value |-> adjusted_value]
    IN  [st EXCEPT
           !.raised = r.raised,
           !.adjusted_params = after,
           !.original_params = IF st.aliased THEN after ELSE @,
           !.adjustments = entry.recorded_after,
           !.log = Append(@, entry)]

\* One pass of the loop body (lines 99-122).
ApplyFactor(run, st, factor) ==
    Only({ApplyAdjustment(st, factor, r) : r \in {CalculateFactorAdjustment(run, factor)}})

\* for factor in self.impact_factors (lines 99-122); an exception ends the loop.
RECURSIVE ApplyFactors(_, _, _)
ApplyFactors(run, st, factors) ==
    IF factors = <<>> \/ st.raised THEN st
    ELSE Only({ApplyFactors(run, next, Tail(factors)) :
                 next \in {ApplyFactor(run, st, Head(factors))}})

\* min(0.5 + len(events) / 20, 0.95) (commodity line 706, DCF line 479).
AdjustmentConfidence(events) == RMin(RAdd(Q(1, 2), Q(Len(events), 20)), Q(95, 100))

\* _save_commodity_adjustments (lines 686-727) / _save_dcf_adjustments
\* (lines 439-498): one inserted row per item of the adjustments dict.
SaveAdjustments(asset, adjustments, events) ==
    {[asset |-> asset, factor_name |-> name,
      original_value |-> adjustments[name].original_value,
      adjusted_value |-> adjustments[name].adjusted_value,
      confidence |-> AdjustmentConfidence(events),
      event_id |-> events[1].id] : name \in DOMAIN adjustments}

\* The state the loop starts from (lines 78 and 95-96).
LoopStart(run) ==
    LET copy == CopyParams(IF run.integrator = "commodity"
                           THEN GetOriginalCommodityParameters(run.asset)
                           ELSE GetOriginalDcfParameters(run.asset))
    IN  [aliased |-> copy.aliased, original_params |-> copy.original_params,
         adjusted_params |-> copy.adjusted_params, adjustments |-> EmptyDict,
         log |-> <<>>, raised |-> FALSE]

\* What the call leaves behind (lines 73-75, 90-92, 125-127), st being the
\* state the loop ended in (the state it would start from, when the call
\* returns before the loop).
RunOutcome(run, st) ==
    LET blank == [status |-> "ok", original_params |-> st.original_params,
                  returned |-> EmptyDict, adjustments |-> EmptyDict, log |-> <<>>,
                  saved |-> {}]
    IN  IF ~run.enabled THEN [blank EXCEPT !.status = "disabled"]
        ELSE IF run.events = <<>>
        THEN [blank EXCEPT !.status = "no_events", !.returned = st.original_params]
        ELSE IF st.raised
        THEN [blank EXCEPT !.status = "TypeError",
                           !.adjustments = st.adjustments, !.log = st.log]
        ELSE [blank EXCEPT !.returned = st.adjusted_params,
                           !.adjustments = st.adjustments, !.log = st.log,
                           !.saved = SaveAdjustments(run.asset, st.adjustments,
                                                     run.events)]

\* adjust_commodity_parameters / adjust_dcf_parameters (lines 62-127).
AdjustParameters(run) ==
    Only({RunOutcome(run, st) :
            st \in {IF run.enabled /\ run.events # <<>>
                    THEN ApplyFactors(run, LoopStart(run), run.factors)
                    ELSE LoopStart(run)}})

\* The impact_factors lists of the configuration.
CommodityFactors ==
    {[name |-> "trade_policy", weight |-> Q(1, 2), source |-> "keyword_filter"],
     [name |-> "global_supply", weight |-> Q(3, 10), source |-> "world_bank"],
     [name |-> "demand_forecast", weight |-> Q(3, 10), source |-> "fred"],
     [name |-> "sentiment", weight |-> Q(1, 5), source |-> "analysis"],
     [name |-> "sentiment", weight |-> RZero, source |-> "analysis"],
     [name |-> "supply", weight |-> Q(1, 2), source |-> "world_bank"],
     [name |-> "supply", weight |-> Q(1, 2), source |-> "bloomberg"]}

DcfFactors ==
    {[name |-> "interest_rate", weight |-> Q(1, 2), source |-> "fred"],
     [name |-> "gdp_growth", weight |-> Q(3, 10), source |-> "fred"],
     [name |-> "inflation", weight |-> Q(3, 10), source |-> "fred"],
     [name |-> "sentiment", weight |-> Q(1, 5), source |-> "analysis"],
     [name |-> "growth_rate", weight |-> Q(1, 2), source |-> "fred"],
     [name |-> "growth_rate", weight |-> Q(1, 2), source |-> "analysis"],
     [name |-> "discount_rate", weight |-> Q(1, 2), source |-> "bloomberg"]}

\* The macro_events rows the run may read, with what the store links to them.
AdjEvents ==
    {[id |-> 1, event_category |-> "trade_policy", importance |-> 4,
      keywords |-> <<"oil", "tariff", "crude">>, articles |-> TRUE,
      sentiment |-> Some(Q(-2, 10)),
      impacts |-> <<[impact_target |-> "gdp", impact_value |-> Q(-2, 100),
                     confidence |-> Q(7, 10)]>>],
     [id |-> 2, event_category |-> "monetary_policy", importance |-> 5,
      keywords |-> <<"interest rate">>, articles |-> TRUE,
      sentiment |-> Some(ROne),
      impacts |-> <<[impact_target |-> "interest_rate", impact_value |-> Q(1, 100),
                     confidence |-> Q(9, 10)],
                    [impact_target |-> "gdp", impact_value |-> Q(1, 100),
                     confidence |-> Q(1, 2)]>>],
     [id |-> 3, event_category |-> "commodity", importance |-> 1,
      keywords |-> <<"oil">>, articles |-> TRUE, sentiment |-> None,
      impacts |-> <<[impact_target |-> "inflation", impact_value |-> Q(1, 100),
                     confidence |-> Q(6, 10)]>>],
     [id |-> 4, event_category |-> "trade_policy", importance |-> 2,
      keywords |-> <<>>, articles |-> FALSE, sentiment |-> None,
      impacts |-> <<>>]}

\* ORDER BY importance DESC (commodity lines 293 and 334, DCF lines 185 and 226).
RECURSIVE EventsByImportance(_)
EventsByImportance(S) ==
    IF S = {} THEN <<>>
    ELSE LET e == CHOOSE x \in S : \A y \in S : y.importance <= x.importance
         IN  <<e>> \o EventsByImportance(S \ {e})

AdjEventLists ==
    {EventsByImportance(S) : S \in {T \in SUBSET AdjEvents : Cardinality(T) <= MaxAdjEvents}}

\* The series get_historical_data returns for global_trade, gdp and cpi.
MarketData ==
    {[trade |-> <<Q(110, 1), Q(100, 1)>>, gdp |-> <<Q(22000, 1), Q(22100, 1), Q(22200, 1)>>,
      cpi |-> <<Q(100, 1), Q(102, 1)>>],
     [trade |-> <<Q(100, 1)>>, gdp |-> <<>>, cpi |-> <<Q(100, 1)>>]}

AdjInit ==
    \E integrator \in {"commodity", "dcf"}, enabled \in BOOLEAN,
       events \in AdjEventLists :
      \E asset \in (IF integrator = "commodity" THEN {"oil", "tin"} ELSE {"AAPL", "XYZ"}),
         market \in (IF integrator = "commodity" THEN MarketData
                     ELSE {[trade |-> <<>>, gdp |-> <<>>, cpi |-> <<>>]}),
         factors \in SeqsUpTo(IF integrator = "commodity" THEN CommodityFactors
                              ELSE DcfFactors, MaxFactors) :
        adj = [pc |-> "call", integrator |-> integrator, asset |-> asset,
               enabled |-> enabled, factors |-> factors, events |-> events,
               market |-> market, status |-> "", original_params |-> EmptyDict,
               returned |-> EmptyDict, adjustments |-> EmptyDict, log |-> <<>>,
               saved |-> {}]

AdjustAssetParameters ==
    /\ adj.pc = "call"
    /\ \E r \in {AdjustParameters(adj)} :
           adj' = [adj EXCEPT !.pc = "done", !.status = r.status,
                              !.original_params = r.original_params,
                              !.returned = r.returned, !.adjustments = r.adjustments,
                              !.log = r.log, !.saved = r.saved]
    /\ UNCHANGED <<attr, ident, impact, corr, pred, kw, store, runs,
                 similar, inv, main>>

InitAdj == AdjInit /\ attr = Idle /\ ident = Idle /\ impact = Idle /\ corr = Idle
           /\ pred = Idle /\ kw = Idle /\ store = Idle /\ runs = Idle
            /\ similar = Idle /\ inv = Idle /\ main = Idle
NextAdj == AdjustAssetParameters
SpecAdj == InitAdj /\ [][NextAdj]_vars

\* The (name, source) pairs the resolvers of an integrator support.
SupportedPairs(integrator) ==
    IF integrator = "commodity"
    THEN {<<"trade_policy", "keyword_filter">>, <<"global_supply", "world_bank">>,
          <<"demand_forecast", "fred">>, <<"sentiment", "analysis">>}
    ELSE {<<"interest_rate", "fred">>, <<"gdp_growth", "fred">>, <<"inflation", "fred">>,
          <<"sentiment", "analysis">>}

Unsupported(factor) == <<factor.name, factor.source>> \notin SupportedPairs(adj.integrator)

\* The run went through its factor loop.
LoopEntered == adj.pc = "done" /\ adj.status \in {"ok", "TypeError"}

\* C11: a configured factor whose source is not supported, or whose name its
\* source's resolver does not support, resolves to 0 without raising, changes
\* no parameter and records no adjustment, and the loop goes on to the next
\* factor of the list (both integrators).
C11_UnsupportedFactorIsSkipped ==
    LoopEntered =>
      /\ \A i \in DOMAIN adj.log : adj.log[i].factor = adj.factors[i]
      /\ adj.status = "ok" => Len(adj.log) = Len(adj.factors)
      /\ \A i \in DOMAIN adj.log :
           Unsupported(adj.log[i].factor) =>
             /\ ~adj.log[i].raised
             /\ adj.log[i].adjustment = RZero
             /\ ~adj.log[i].applied
             /\ adj.log[i].after = adj.log[i].before
             /\ adj.log[i].recorded_after = adj.log[i].recorded_before
             /\ i < Len(adj.factors) => Len(adj.log) >= i + 1
             /\ i = Len(adj.factors) => adj.status = "ok"

C11_Witness ==
    /\ LoopEntered
    /\ \E integrator \in {"commodity", "dcf"} :
         /\ adj.integrator = integrator
         /\ Len(adj.log) = 2
         /\ Unsupported(adj.log[1].factor)
         /\ adj.log[1].factor.source = "bloomberg"
         /\ ~Unsupported(adj.log[2].factor)
         /\ adj.log[2].applied
         /\ DOMAIN adj.adjustments = {adj.log[2].factor.name}

\* The parameter set the source hands to the run.
SourceParameters ==
    IF adj.integrator = "commodity" THEN GetOriginalCommodityParameters(adj.asset)
    ELSE GetOriginalDcfParameters(adj.asset)

\* C12: a factor whose resolver returns a nonzero signal s sets the parameter
\* named by the factor to original * (1 + s * weight), original being the value
\* stored under that name just before (a name not stored yet reads as 0), and
\* leaves every other parameter alone; the parameter set obtained from the
\* source is not mutated.
C12_AdjustedValueFormula ==
    adj.pc = "done" =>
      /\ adj.original_params = SourceParameters
      /\ adj.status = "no_events" => adj.returned = SourceParameters
      /\ \A i \in DOMAIN adj.log :
           LET e == adj.log[i]
               name == e.factor.name
               original == IF name \in DOMAIN e.before THEN e.before[name] ELSE RZero
               scale == Q(e.factor.weight[2] * e.adjustment[2]
                            + e.adjustment[1] * e.factor.weight[1],
                          e.factor.weight[2] * e.adjustment[2])
           IN  (~e.raised /\ e.adjustment # RZero) =>
                 /\ e.applied
                 /\ DOMAIN e.after = DOMAIN e.before \cup {name}
                 /\ e.after[name] = Q(original[1] * scale[1], original[2] * scale[2])
                 /\ e.original_value = original
                 /\ e.adjusted_value = e.after[name]
                 /\ \A x \in DOMAIN e.before \ {name} : e.after[x] = e.before[x]
                 /\ i = Len(adj.log) /\ adj.status = "ok" => adj.returned = e.after

C12_Witness ==
    /\ adj.pc = "done"
    /\ adj.status = "ok"
    /\ Len(adj.log) = 2
    /\ adj.log[1].applied
    /\ adj.log[2].applied
    /\ adj.log[2].factor.name \in DOMAIN adj.log[2].before
    /\ adj.log[2].adjustment = Q(-4, 75)
    /\ adj.log[2].factor.weight = Q(1, 2)
    /\ adj.returned # adj.original_params
    /\ adj.original_params = SourceParameters

\* The passes of the loop that applied an adjustment.
Applications == {i \in DOMAIN adj.log : adj.log[i].applied}

\* C13: after a run over any factor list, two factors of the same name
\* included, every factor application that changed a parameter has its own
\* audit record handed to the save step, with the original and adjusted value
\* of that application; none is lost or overwritten.
C13_EveryApplicationAudited ==
    (adj.pc = "done" /\ adj.status = "ok") =>
      /\ Cardinality(adj.saved) = Cardinality(Applications)
      /\ \A i \in Applications :
           \E row \in adj.saved :
             /\ row.factor_name = adj.log[i].factor.name
             /\ row.original_value = adj.log[i].original_value
             /\ row.adjusted_value = adj.log[i].adjusted_value

\* The parameters the projector of an integrator reads.
ProjectorInputs(integrator) ==
    IF integrator = "commodity"
    THEN {"supply", "demand", "inventory", "price_elasticity", "seasonal_factor"}
    ELSE {"discount_rate", "growth_rate", "terminal_growth_rate"}

\* C14: when a factor that a resolver supports resolves to a nonzero signal
\* with a nonzero weight, at least one parameter the projector reads differs
\* from its original value in the returned parameter set.
C14_AdjustmentReachesProjector ==
    (/\ adj.pc = "done"
     /\ adj.status = "ok"
     /\ \E i \in DOMAIN adj.log :
          /\ ~Unsupported(adj.log[i].factor)
          /\ adj.log[i].adjustment # RZero
          /\ adj.log[i].factor.weight # RZero) =>
       \E p \in ProjectorInputs(adj.integrator) : adj.returned[p] # SourceParameters[p]

\* C15: for a current price > 0 and adjusted supply > 0 and demand > 0 (and a
\* nonzero elasticity) predict_commodity_price returns a prediction record
\* with predicted_price = current_price * (1 + clamped change) and a
\* confidence of min(0.5 + n/20, 0.95) for n events considered.  The record is
\* returned only if the call ends without an exception.
C15_PredictionReturned ==
    (/\ pred.pc = "done"
     /\ pred.enabled
     /\ RLt(RZero, GetCurrentCommodityPrice(pred.commodity_name))
     /\ RLt(RZero, pred.adjusted_params.supply)
     /\ RLt(RZero, pred.adjusted_params.demand)
     /\ ~RIsZero(pred.adjusted_params.price_elasticity)) =>
       /\ pred.prediction.status = "returned"
       /\ pred.prediction.predicted_price
            = RMul(pred.prediction.current_price,
                   RAdd(ROne, pred.prediction.price_change_pct))

(***************************************************************************)
(* Event persistence (analysis/quantitative_analyzer.py, save_macro_event). *)
(*                                                                         *)
(* db is the external store as the analyzer's connection sees it: the      *)
(* macro_events rows, the event_articles rows in insertion order and the   *)
(* next auto-increment id.  The schema is not part of the sources; the     *)
(* store is taken to enforce the natural key of an event, its category and *)
(* window, as the specification requires of it.                            *)
(***************************************************************************)
MaxRuns == 2

EmptyStore == [macro_events |-> <<>>, event_articles |-> <<>>, next_id |-> 1]

\* INSERT INTO macro_events against the natural key (event_category, window):
\* a duplicate key is an Error, otherwise the row gets the next id.
InsertMacroEvent(db, event) ==
    IF \E i \in DOMAIN db.macro_events :
         /\ db.macro_events[i].event_category = event.event_category
         /\ db.macro_events[i].start_date = event.start_date
         /\ db.macro_events[i].end_date = event.end_date
    THEN [error |-> TRUE, lastrowid |-> 0, db |-> db]
    ELSE [error |-> FALSE, lastrowid |-> db.next_id,
          db |-> [db EXCEPT
                    !.macro_events =
                       Append(@, [id |-> db.next_id,
                                  event_category |-> event.event_category,
                                  start_date |-> event.start_date,
                                  end_date |-> event.end_date,
                                  importance |-> event.importance]),
                    !.next_id = @ + 1]]

\* _save_event_articles (lines 265-302): one inserted row per element of
\* article_ids.
SaveEventArticles(db, event_id, article_ids) ==
    [db EXCEPT !.event_articles =
                  @ \o [i \in DOMAIN article_ids |->
                          [event_id |-> event_id, article_id |-> article_ids[i]]]]

\* Mutant of SaveMacroEvent: the links are written although the insert failed.
SaveMacroEventLinksOnError(db, event) ==
    LET ins == InsertMacroEvent(db, event)
    IN  IF ins.error THEN SaveEventArticles(db, db.next_id, event.article_ids)
        ELSE SaveEventArticles(ins.db, ins.lastrowid, event.article_ids)

\* save_macro_event (lines 214-263): on an Error the transaction is rolled
\* back and nothing of the event is stored.
SaveMacroEvent(db, event) ==
    LET ins == InsertMacroEvent(db, event)
    IN  IF ins.error THEN db
        ELSE IF ins.lastrowid # 0
             THEN SaveEventArticles(ins.db, ins.lastrowid, event.article_ids)
             ELSE ins.db

\* save_macro_event called for every identified event, in order.
RECURSIVE SaveMacroEvents(_, _)
SaveMacroEvents(db, events) ==
    IF events = <<>> THEN db
    ELSE SaveMacroEvents(SaveMacroEvent(db, Head(events)), Tail(events))

\* The batches of signal records: every keyword matched the first n articles,
\* for some n of its own.
StoreBatches ==
    {UNION {{KeywordMatch(a, k) : a \in 1..matched[k]} : k \in Keywords}
       : matched \in [Keywords -> 0..MaxArticles]}

\* A batch of signal records and an empty store.
StoreInit ==
    \E rows \in StoreBatches :
      store = [pc |-> "run", rows |-> rows, runs |-> 0, db |-> EmptyStore,
               after_first |-> EmptyStore]

\* One run: identify_macro_events, then save_macro_event for each event.
IdentifyAndSave ==
    /\ store.pc = "run"
    /\ store.runs < MaxRuns
    /\ LET db == SaveMacroEvents(store.db, IdentifyMacroEvents(TRUE, store.rows))
       IN  store' = [store EXCEPT !.runs = @ + 1, !.db = db,
                                  !.after_first = IF store.runs = 0 THEN db ELSE @]
    /\ UNCHANGED <<attr, ident, impact, corr, pred, kw, adj, runs,
                 similar, inv, main>>

InitStore == StoreInit /\ attr = Idle /\ ident = Idle /\ impact = Idle /\ corr = Idle
             /\ pred = Idle /\ kw = Idle /\ adj = Idle /\ runs = Idle
            /\ similar = Idle /\ inv = Idle /\ main = Idle
NextStore == IdentifyAndSave
SpecStore == InitStore /\ [][NextStore]_vars

\* The stored events of a category.
StoredEvents(category) ==
    {i \in DOMAIN store.db.macro_events :
       store.db.macro_events[i].event_category = category}

\* The keyword-match records the batch holds for a category.
BatchGroupSize(category) ==
    Cardinality({r \in store.rows : r.keyword_category = category})

ConcFactors == <<[name |-> "sentiment", weight |-> Q(1, 5), source |-> "analysis"]>>

\* get_connection (db_connector.py lines 29-61): the cached connection when
\* it is connected, otherwise a new one, which is cached.
GetConnection(connector) ==
    IF connector.connection # 0 /\ connector.connection \in connector.open
    THEN [connection |-> connector.connection, connector |-> connector]
    ELSE [connection |-> connector.next,
          connector |-> [connection |-> connector.next,
                         open |-> connector.open \cup {connector.next},
                         next |-> connector.next + 1]]

\* connection.is_connected()
IsConnected(connector, connection) == connection \in connector.open

\* The run record of a run whose reads returned events and sentiments.
RunRecord(asset, events, sentiments) ==
    [integrator |-> "commodity", asset |-> asset, enabled |-> TRUE,
     factors |-> ConcFactors,
     events |-> [k \in DOMAIN events |->
                   [events[k] EXCEPT !.sentiment =
                      IF k \in DOMAIN sentiments THEN sentiments[k] ELSE None]],
     market |-> [trade |-> <<>>, gdp |-> <<>>, cpi |-> <<>>]]

\* Where a run goes after the read of its events and of the k-th sentiment.
AfterReads(p) ==
    IF p.events = <<>>
    THEN [p EXCEPT !.pc = "done", !.status = "no_events",
                   !.returned = GetOriginalCommodityParameters(p.asset)]
    ELSE IF Len(p.sentiments) < Len(p.events)
    THEN [p EXCEPT !.pc = "sentiment_get"]
    ELSE Only({IF r.adjustments = EmptyDict
               THEN [p EXCEPT !.pc = "done", !.status = "ok", !.returned = r.returned]
               ELSE [p EXCEPT !.pc = "save_get", !.returned = r.returned] :
                 r \in {AdjustParameters(RunRecord(p.asset, p.events, p.sentiments))}})

RunsInit ==
    \E a1 \in {"oil", "copper", "tin"}, a2 \in {"oil", "copper", "tin"},
       events \in AdjEventLists :
      /\ a1 # a2
      /\ runs = [pc |-> "running",
                 connector |-> [connection |-> 0, open |-> {}, next |-> 1],
                 macro_events |-> events,
                 adjustments_table |-> {},
                 run |-> [r \in {1, 2} |->
                            [pc |-> "events_get", asset |-> IF r = 1 THEN a1 ELSE a2,
                             connection |-> 0, events |-> <<>>, sentiments |-> <<>>,
                             status |-> "", returned |-> EmptyDict]]]

\* connection = self.db_connector.get_connection() (lines 284, 322, 649, 692).
RunGetConnection(r) ==
    /\ runs.pc = "running"
    /\ runs.run[r].pc \in {"events_get", "sentiment_get", "save_get"}
    /\ LET got == GetConnection(runs.connector)
           pc == CASE runs.run[r].pc = "events_get" -> "events_execute"
                   [] runs.run[r].pc = "sentiment_get" -> "sentiment_execute"
                   [] OTHER -> "save_execute"
       IN  runs' = [runs EXCEPT !.connector = got.connector,
                                !.run[r].connection = got.connection,
                                !.run[r].pc = pc]
    /\ UNCHANGED <<attr, ident, impact, corr, pred, kw, adj, store,
                 similar, inv, main>>

\* _get_recent_events (lines 274-307): the rows, or [] on an Error, which a
\* connection closed in the meantime raises.
RunReadEvents(r) ==
    /\ runs.pc = "running"
    /\ runs.run[r].pc = "events_execute"
    /\ runs' = [runs EXCEPT !.run[r] =
                  IF IsConnected(runs.connector, runs.run[r].connection)
                  THEN [@ EXCEPT !.events = runs.macro_events, !.pc = "events_close"]
                  ELSE AfterReads([@ EXCEPT !.events = <<>>])]
    /\ UNCHANGED <<attr, ident, impact, corr, pred, kw, adj, store,
                 similar, inv, main>>

\* _get_event_sentiment (lines 645-684) for the next event of the resolver's
\* loop (line 547): the sentiment, or None on an Error.
RunReadSentiment(r) ==
    /\ runs.pc = "running"
    /\ runs.run[r].pc = "sentiment_execute"
    /\ runs' = [runs EXCEPT !.run[r] =
                  IF IsConnected(runs.connector, runs.run[r].connection)
                  THEN [@ EXCEPT !.sentiments =
                                    Append(@, GetCommodityEventSentiment(
                                                runs.run[r].events[Len(@) + 1])),
                                 !.pc = "sentiment_close"]
                  ELSE AfterReads([@ EXCEPT !.sentiments = Append(@, None)])]
    /\ UNCHANGED <<attr, ident, impact, corr, pred, kw, adj, store,
                 similar, inv, main>>

\* _save_commodity_adjustments (lines 686-727): the rows inserted and
\* committed; on an Error nothing is written, and the rollback on the closed
\* connection either passes or raises in its turn.
RunSaveAdjustments(r) ==
    /\ runs.pc = "running"
    /\ runs.run[r].pc = "save_execute"
    /\ LET p == runs.run[r]
           rows == AdjustParameters(RunRecord(p.asset, p.events, p.sentiments)).saved
       IN  IF IsConnected(runs.connector, p.connection)
           THEN runs' = [runs EXCEPT !.adjustments_table = @ \cup rows,
                                     !.run[r].pc = "save_close"]
           ELSE \E status \in {"ok", "OperationalError"} :
                  runs' = [runs EXCEPT !.run[r].pc = "done",
                                       !.run[r].status = status,
                                       !.run[r].returned =
                                          IF status = "ok" THEN @ ELSE EmptyDict]
    /\ UNCHANGED <<attr, ident, impact, corr, pred, kw, adj, store,
                 similar, inv, main>>

\* finally: if connection.is_connected(): cursor.close(); connection.close()
\* (lines 304-307, 345-348, 681-684, 724-727).
RunCloseConnection(r) ==
    /\ runs.pc = "running"
    /\ runs.run[r].pc \in {"events_close", "sentiment_close", "save_close"}
    /\ LET p == runs.run[r]
           after == IF p.pc = "save_close" THEN [p EXCEPT !.pc = "done", !.status = "ok"]
                    ELSE AfterReads(p)
       IN  runs' = [runs EXCEPT
                      !.connector.open = @ \ {p.connection},
                      !.run[r] = after]
    /\ UNCHANGED <<attr, ident, impact, corr, pred, kw, adj, store,
                 similar, inv, main>>

InitRuns == RunsInit /\ attr = Idle /\ ident = Idle /\ impact = Idle /\ corr = Idle
            /\ pred = Idle /\ kw = Idle /\ adj = Idle /\ store = Idle
            /\ similar = Idle /\ inv = Idle /\ main = Idle
NextRuns ==
    \E r \in {1, 2} :
      \/ RunGetConnection(r)
      \/ RunReadEvents(r)
      \/ RunReadSentiment(r)
      \/ RunSaveAdjustments(r)
      \/ RunCloseConnection(r)
SpecRuns == InitRuns /\ [][NextRuns]_vars

\* What the run of r returns and writes when it runs alone.
Alone(r) ==
    AdjustParameters(
      RunRecord(runs.run[r].asset, runs.macro_events,
                [k \in DOMAIN runs.macro_events |->
                   GetCommodityEventSentiment(runs.macro_events[k])]))

\* C17: two adjustment runs over different assets, interleaved at their store
\* reads and writes, each return the adjusted parameters and write the audit
\* records they return and write when run alone.
C17_InterleavedRunsAsAlone ==
    (\A r \in {1, 2} : runs.pc = "running" /\ runs.run[r].pc = "done") =>
      \A r \in {1, 2} :
        /\ runs.run[r].returned = Alone(r).returned
        /\ {row \in runs.adjustments_table : row.asset = runs.run[r].asset}
             = Alone(r).saved

\* C18: the importance of the event emitted for a qualifying category with
\* group size g >= 5 is clamp(round(g / 5), 1, 5), an integer in 1..5.  g / 5
\* never ends in .5, so round(g / 5) is the floor of g / 5 + 1/2.
C18_ImportanceIsRounded ==
    ident.pc = "done" =>
      \A i \in DOMAIN ident.identified_events :
        LET e == ident.identified_events[i]
            g == GroupSize(e.event_category)
            rounded == (2 * g + 5) \div 10
        IN  g >= 5 =>
              /\ e.importance \in 1..5
              /\ e.importance = IF rounded < 1 THEN 1
                                ELSE IF rounded > 5 THEN 5 ELSE rounded

\* The supplied events that have a sentiment score.
ScoredEvents == SelectSeq(adj.events, LAMBDA e : e.articles /\ e.sentiment.has)

\* sum of polarity * importance over sum of importance, 0 without a score.
ImportanceWeightedPolarity ==
    LET weighted == RSum([i \in DOMAIN ScoredEvents |->
                            RMul(ScoredEvents[i].sentiment.v,
                                 Q(ScoredEvents[i].importance, 1))])
        total == SumInts([i \in DOMAIN ScoredEvents |-> ScoredEvents[i].importance])
    IN  IF total > 0 THEN RDiv(weighted, Q(total, 1)) ELSE RZero

SentimentCoefficient == IF adj.integrator = "commodity" THEN Q(1, 10) ELSE Q(5, 100)

\* C19: the sentiment-composite resolver of both propagators returns the
\* coefficient (0.1 commodity, 0.05 DCF) times the importance-weighted average
\* polarity of the events that have a sentiment score, 0 when none has one,
\* and the result lies within +/- the coefficient (stated on the runs in
\* which the resolver returns).
C19_SentimentComposite ==
    (adj.pc = "done" /\ adj.status = "ok") =>
      \A i \in DOMAIN adj.log :
        (adj.log[i].factor.name = "sentiment" /\ adj.log[i].factor.source = "analysis") =>
          /\ adj.log[i].adjustment = RMul(SentimentCoefficient, ImportanceWeightedPolarity)
          /\ RLe(RAbs(adj.log[i].adjustment), SentimentCoefficient)

\* C20: in the decomposition branch (|excess| >= 0.01) each named contribution
\* (macro_events, sector_performance, company_specific, commodity_specific,
\* market_sentiment) is a fraction of the excess return: its magnitude never
\* exceeds 50% of |excess return|.
C20_ContributionsBounded ==
    (attr.pc = "done" /\ ~RLt(RAbs(attr.excess_return), Q(1, 100))) =>
      \A k \in DOMAIN attr.attribution \ {"unexplained"} :
        RLe(RAbs(attr.attribution[k]), RMul(Q(1, 2), RAbs(attr.excess_return)))

\* The signs of the expected impact (0.5 * macro_adjustment) and of the excess
\* return are equal.
SignsAgree(macro_adjustment, excess_return) ==
    \/ RLt(RZero, macro_adjustment) /\ RLt(RZero, excess_return)
    \/ RLt(macro_adjustment, RZero) /\ RLt(excess_return, RZero)

\* The macro_events contribution of the same decision with the opposite
\* macro_adjustment: same |excess return| and |expected impact|, the other sign
\* relation.
MirroredMacroContribution ==
    MacroContribution([attr.decision EXCEPT !.macro_adjustment = RNeg(@)],
                      attr.n_events, attr.excess_return)

\* C21: in the decomposition branch, with no related events or
\* macro_adjustment = 0 the macro_events contribution is 0; otherwise, when the
\* sign of the expected impact differs from the sign of the excess return, the
\* contribution is in magnitude one half of the contribution the same |excess
\* return| and |expected impact| get under sign agreement.
C21_MacroHalvedOnDisagreement ==
    (attr.pc = "done" /\ ~RLt(RAbs(attr.excess_return), Q(1, 100))) =>
      IF attr.n_events = 0 \/ RIsZero(attr.decision.macro_adjustment)
      THEN RIsZero(attr.attribution["macro_events"])
      ELSE ~SignsAgree(attr.decision.macro_adjustment, attr.excess_return) =>
             RAbs(attr.attribution["macro_events"]) =
               RMul(Q(1, 2), RAbs(MirroredMacroContribution))

\* A supplied event has no sentiment data: no linked article, or linked
\* articles without a sentiment row.
MissingSentiment == \E i \in DOMAIN adj.events : ~adj.events[i].sentiment.has

\* C22: missing sentiment data is never raised to the caller: a run of either
\* integrator over events of which some have no linked article or no sentiment
\* row completes normally, every pass of the loop having obtained a number.
C22_MissingSentimentNotRaised ==
    (adj.pc = "done" /\ adj.enabled /\ MissingSentiment) =>
      /\ adj.status \in {"ok", "no_events"}
      /\ \A i \in DOMAIN adj.log : ~adj.log[i].raised

BothValues(indicator) ==
    SelectSeq(Observations(impact.n_similar, impact.matched[indicator], impact.shift),
              LAMBDA o : o.before.has /\ o.after.has)

\* (after - before) / before of every such observation, 0 for before = 0, summed.
SumOfRelativeChanges(indicator) ==
    LET both == BothValues(indicator)
    IN  RSum([j \in DOMAIN both |->
                IF both[j].before.v = 0 THEN RZero
                ELSE RSub(Q(both[j].after.v, both[j].before.v), ROne)])

\* C24: the impact_value of every returned EventImpact is the arithmetic mean,
\* over the analogous prior events with both a before and an after value, of
\* (after - before) / before, an event with before = 0 counting as a matched
\* event with change 0; impact_type is 'direct' exactly when |mean| > 0.01 and
\* 'indirect' otherwise.
C24_ImpactIsMeanChange ==
    impact.pc = "done" =>
       \A i \in DOMAIN impact.impacts :
          LET r == impact.impacts[i]
              n == Len(BothValues(r.impact_target))
          IN  /\ n > 0
              /\ RMul(r.impact_value, Q(n, 1)) = SumOfRelativeChanges(r.impact_target)
              /\ r.impact_type \in {"direct", "indirect"}
              /\ r.impact_type = "direct" <=> RLt(Q(1, 100), RAbs(r.impact_value))

C24_Witness ==
    /\ impact.pc = "done"
    /\ \E i, j \in DOMAIN impact.impacts :
          /\ impact.impacts[i].impact_type = "direct"
          /\ impact.impacts[j].impact_type = "indirect"
          /\ ~RIsZero(impact.impacts[j].impact_value)
          /\ Len(BothValues(impact.impacts[j].impact_target)) = 2
          /\ \E k \in DOMAIN BothValues(impact.impacts[j].impact_target) :
                BothValues(impact.impacts[j].impact_target)[k].before.v = 0

(***************************************************************************)
(* Analogous-event lookup (analysis/quantitative_analyzer.py).             *)
(*                                                                         *)
(* macro_events holds the rows the query of _find_similar_events runs      *)
(* over.  SQL leaves the order of rows with equal start_date open: the     *)
(* model takes it as either id order, drawn with the call.                 *)
(***************************************************************************)
MaxSameDay == 6
SimilarDates == {1, 2, 3}
SimilarCategories == {"trade_policy", "monetary_policy"}
TieOrders == {"id_asc", "id_desc"}

\* row1 comes before row2 under ORDER BY start_date DESC (line 415).
StartsLater(row1, row2, tie_order) ==
    \/ row1.start_date > row2.start_date
    \/ /\ row1.start_date = row2.start_date
       /\ IF tie_order = "id_asc" THEN row1.id < row2.id ELSE row1.id > row2.id

\* ORDER BY start_date DESC (line 415).
RECURSIVE OrderByStartDateDesc(_, _)
OrderByStartDateDesc(rows, tie_order) ==
    IF rows = {} THEN <<>>
    ELSE LET first == CHOOSE r \in rows :
                        \A o \in rows \ {r} : StartsLater(r, o, tie_order)
         IN  <<first>> \o OrderByStartDateDesc(rows \ {first}, tie_order)

\* LIMIT 10 (line 416).
Limit(rows, n) == SubSeq(rows, 1, IF Len(rows) < n THEN Len(rows) ELSE n)

\* Mutant of FindSimilarEvents: start_date <= instead of <.
FindSimilarEventsNotStrict(macro_events, event, tie_order, db_error) ==
    IF db_error THEN <<>>
    ELSE Limit(OrderByStartDateDesc(
                 {r \in macro_events : /\ r.event_category = event.event_category
                                       /\ r.id # event.id
                                       /\ r.start_date <= event.start_date},
                 tie_order),
               SimilarLimit)

\* _find_similar_events (lines 393-434); a database error gives [].
FindSimilarEvents(macro_events, event, tie_order, db_error) ==
    IF db_error THEN <<>>
    ELSE Limit(OrderByStartDateDesc(
                 {r \in macro_events : /\ r.event_category = event.event_category
                                       /\ r.id # event.id
                                       /\ r.start_date < event.start_date},
                 tie_order),
               SimilarLimit)

\* The stored events: per_day[d] events of the given event's category that
\* start on day d, and one event of the other category on each day of
\* other_days; the given event is stored too.
StoredMacroEvents(event, per_day, other_days) ==
    {event}
      \cup UNION {{[id |-> 10 * d + k, event_category |-> event.event_category,
                    start_date |-> d] : k \in 1..per_day[d]} : d \in SimilarDates}
      \cup {[id |-> 100 + d,
             event_category |-> CHOOSE c \in SimilarCategories :
                                  c # event.event_category,
             start_date |-> d] : d \in other_days}

SimilarInit ==
    \E category \in SimilarCategories, start_date \in SimilarDates,
       per_day \in [SimilarDates -> 0..MaxSameDay],
       other_days \in {{}, SimilarDates}, tie_order \in TieOrders,
       db_error \in BOOLEAN :
      similar = [pc |-> "call",
                 event |-> [id |-> 200, event_category |-> category,
                            start_date |-> start_date],
                 macro_events |->
                   StoredMacroEvents([id |-> 200, event_category |-> category,
                                      start_date |-> start_date],
                                     per_day, other_days),
                 tie_order |-> tie_order, db_error |-> db_error,
                 similar_events |-> <<>>]

FindSimilar ==
    /\ similar.pc = "call"
    /\ similar' = [similar EXCEPT
                     !.pc = "done",
                     !.similar_events = FindSimilarEvents(similar.macro_events,
                                                          similar.event,
                                                          similar.tie_order,
                                                          similar.db_error)]
    /\ UNCHANGED <<attr, ident, impact, corr, pred, kw, adj, store, runs, inv, main>>

InitSimilar == SimilarInit /\ attr = Idle /\ ident = Idle /\ impact = Idle
               /\ corr = Idle /\ pred = Idle /\ kw = Idle /\ adj = Idle
               /\ store = Idle /\ runs = Idle /\ inv = Idle /\ main = Idle
NextSimilar == FindSimilar
SpecSimilar == InitSimilar /\ [][NextSimilar]_vars

\* The stored events of the given event's category that start before it.
PriorSameCategory ==
    {r \in similar.macro_events : /\ r.event_category = similar.event.event_category
                                  /\ r.start_date < similar.event.start_date}

\* C25: the analogous events returned for an event E are at most 10 stored
\* events, all of E's category, none E itself, all starting strictly before E,
\* ordered most recent first, and no same-category event earlier than E that
\* is more recent than a returned one is left out.
C25_SimilarEventsArePriorAnalogues ==
    similar.pc = "done" =>
       LET returned == similar.similar_events
       IN  /\ Len(returned) <= 10
           /\ \A i \in DOMAIN returned :
                 /\ returned[i] \in similar.macro_events
                 /\ returned[i].event_category = similar.event.event_category
                 /\ returned[i] # similar.event
                 /\ returned[i].start_date < similar.event.start_date
                 /\ \A j \in DOMAIN returned :
                       i < j => /\ returned[i].start_date >= returned[j].start_date
                                /\ returned[i] # returned[j]
                 /\ \A r \in PriorSameCategory :
                       r.start_date > returned[i].start_date =>
                          \E j \in DOMAIN returned : returned[j] = r

C25_Witness ==
    /\ similar.pc = "done"
    /\ Len(similar.similar_events) = 10
    /\ Cardinality(PriorSameCategory) > 10
    /\ similar.similar_events[1].start_date > similar.similar_events[10].start_date
    /\ \E r \in similar.macro_events :
          /\ r.event_category # similar.event.event_category
          /\ r.start_date < similar.event.start_date
    /\ \E r \in similar.macro_events :
          /\ r.event_category = similar.event.event_category
          /\ r.id # similar.event.id
          /\ r.start_date = similar.event.start_date

\* The historical events of the call whose pre window and post window both
\* have data.
BothWindows == {i \in DOMAIN corr.windows : corr.windows[i].pre.has /\ corr.windows[i].post.has}

\* C26: analyze_event_market_correlation skips every historical event of which
\* the pre window or the post window has no data: it returns an empty result
\* when the category has no event or no event has both windows, and otherwise
\* a result whose sample_size is the number of events with both windows and
\* whose average is taken over those events only.
C26_EmptyWindowsSkipped ==
    corr.pc = "done" =>
       IF BothWindows = {} THEN corr.result = <<>>
       ELSE /\ Len(corr.result) = 1
            /\ corr.result[1].sample_size = Cardinality(BothWindows)
            /\ RMul(corr.result[1].average_change, Q(Cardinality(BothWindows), 1)) =
                 RSum([k \in 1..Cardinality(BothWindows) |->
                         LET w == corr.windows[SetToSeq(BothWindows)[k]]
                         IN  RSub(Q(w.post.v, w.pre.v), ROne)])

C26_Witness ==
    /\ corr.pc = "done"
    /\ Len(corr.windows) = 3
    /\ Cardinality(BothWindows) = 1
    /\ \E i \in DOMAIN corr.windows : ~corr.windows[i].pre.has
    /\ \E i \in DOMAIN corr.windows : ~corr.windows[i].post.has
    /\ corr.result # <<>>
    /\ corr.result[1].sample_size = 1

\* The DCF factor that stands for an indicator of the estimator.
FactorOfIndicator(indicator) ==
    CASE indicator = "gdp" -> "gdp_growth"
      [] indicator = "interest_rate" -> "interest_rate"
      [] indicator = "inflation" -> "inflation"

\* C27: every EventImpact that analyze_event_impact persists for gdp,
\* interest_rate or inflation is among the rows the DCF macro-indicator
\* resolver reads for the event when it resolves the factor of that indicator
\* (gdp_growth, interest_rate, inflation).
C27_PersistedImpactIsFound ==
    impact.pc = "done" =>
       \A i \in DOMAIN impact.event_impacts :
          LET row == impact.event_impacts[i]
          IN  row.impact_target \in {"gdp", "interest_rate", "inflation"} =>
                \E j \in DOMAIN GetEventImpacts(
                                  [impacts |-> impact.event_impacts],
                                  FactorToIndicator(FactorOfIndicator(row.impact_target))) :
                   GetEventImpacts([impacts |-> impact.event_impacts],
                                   FactorToIndicator(FactorOfIndicator(row.impact_target)))[j]
                     = row

\* C28: the returned attribution mapping has the same factor names in both
\* branches: whether |excess| < 0.01 or not, and whatever the configured
\* factor list is, its keys are exactly macro_events, sector_performance,
\* company_specific, commodity_specific, market_sentiment and unexplained.
C28_SameKeysInBothBranches ==
    attr.pc = "done" =>
       DOMAIN attr.attribution =
         {"macro_events", "sector_performance", "company_specific",
          "commodity_specific", "market_sentiment", "unexplained"}

(***************************************************************************)
(* Decision analysis (models/attribution_model.py).                        *)
(*                                                                         *)
(* A decision carries holding_period, the whole days from its              *)
(* decision_date to now.  The model takes it in whole years, for which the *)
(* compounded returns are rational.  attribution_results is the table the  *)
(* save step writes.                                                       *)
(***************************************************************************)
\* base ** k for an integer k.
RECURSIVE RPow(_, _)
RPow(base, k) ==
    IF k = 0 THEN ROne
    ELSE IF k > 0 THEN RMul(base, RPow(base, k - 1))
    ELSE RDiv(ROne, RPow(base, -k))

\* _get_current_asset_price (lines 173-210): None for an unknown symbol or
\* asset type.
GetCurrentAssetPrice(asset_type, asset_symbol) ==
    CASE asset_type = "stock" /\ asset_symbol = "AAPL" -> Some(Q(175, 1))
      [] asset_type = "stock" /\ asset_symbol = "MSFT" -> Some(Q(350, 1))
      [] asset_type = "stock" /\ asset_symbol = "AMZN" -> Some(Q(130, 1))
      [] asset_type = "stock" /\ asset_symbol = "GOOGL" -> Some(Q(140, 1))
      [] asset_type = "stock" /\ asset_symbol = "META" -> Some(Q(300, 1))
      [] asset_type = "commodity" /\ asset_symbol = "oil" -> Some(Q(75, 1))
      [] asset_type = "commodity" /\ asset_symbol = "gold" -> Some(Q(1800, 1))
      [] asset_type = "commodity" /\ asset_symbol = "copper" -> Some(Q(4, 1))
      [] asset_type = "commodity" /\ asset_symbol = "wheat" -> Some(Q(7, 1))
      [] asset_type = "commodity" /\ asset_symbol = "corn" -> Some(Q(5, 1))
      [] OTHER -> None

\* _get_benchmark_return (lines 212-242), for days a multiple of 365.
GetBenchmarkReturn(asset_type, days) ==
    LET annual_return == CASE asset_type = "stock" -> Q(10, 100)
                           [] asset_type = "commodity" -> Q(5, 100)
                           [] OTHER -> Q(7, 100)
    IN  RMul(RSub(RPow(RAdd(ROne, annual_return), days \div 365), ROne), Q(100, 1))

\* Mutant of PercentReturn: the guard is initial_value != 0.
PercentReturnNonzeroGuard(current_value, initial_value) ==
    IF ~RIsZero(initial_value)
    THEN RMul(RSub(RDiv(current_value, initial_value), ROne), Q(100, 1))
    ELSE RZero

\* percent_return (line 97).
PercentReturn(current_value, initial_value) ==
    IF RLt(RZero, initial_value)
    THEN RMul(RSub(RDiv(current_value, initial_value), ROne), Q(100, 1))
    ELSE RZero

\* annualized_return (line 101), for a holding period that divides 365.
AnnualizedReturn(percent_return, holding_period) ==
    IF holding_period > 0
    THEN RMul(RSub(RPow(RAdd(ROne, RDiv(percent_return, Q(100, 1))),
                        365 \div holding_period),
                   ROne),
              Q(100, 1))
    ELSE RZero

\* The result record (lines 94-132).
BuildResult(decision, current_price, n_events, sentiment_data, factors) ==
    LET initial_value == RMul(decision.price, decision.quantity)
        current_value == RMul(current_price, decision.quantity)
        percent_return == PercentReturn(current_value, initial_value)
        benchmark_return == GetBenchmarkReturn(decision.asset_type,
                                               decision.holding_period)
    IN  [asset_type |-> decision.asset_type,
         asset_symbol |-> decision.asset_symbol,
         initial_value |-> initial_value,
         current_value |-> current_value,
         absolute_return |-> RSub(current_value, initial_value),
         percent_return |-> percent_return,
         holding_period_days |-> decision.holding_period,
         annualized_return |-> AnnualizedReturn(percent_return, decision.holding_period),
         benchmark_return |-> benchmark_return,
         excess_return |-> RSub(percent_return, benchmark_return),
         attribution |-> PerformAttributionAnalysis(decision, percent_return,
                                                    benchmark_return, n_events,
                                                    sentiment_data, factors)]

\* _save_attribution_result: the result is added to the table.
SaveAttributionResult(attribution_results, result) == Append(attribution_results, result)

\* analyze_investment_decision (lines 65-137): the returned value ({} is <<>>)
\* and the table afterwards.
AnalyzeInvestmentDecision(call) ==
    LET nothing == [result |-> <<>>, attribution_results |-> call.attribution_results]
    IN  IF ~call.enabled THEN nothing
        ELSE IF call.decision = <<>> THEN nothing
        ELSE IF ~GetCurrentAssetPrice(call.decision[1].asset_type,
                                      call.decision[1].asset_symbol).has
        THEN nothing
        ELSE Only({[result |-> <<result>>,
                    attribution_results |->
                      SaveAttributionResult(call.attribution_results, result)] :
                   result \in {BuildResult(call.decision[1],
                                           GetCurrentAssetPrice(
                                             call.decision[1].asset_type,
                                             call.decision[1].asset_symbol).v,
                                           call.n_events, call.sentiment_data,
                                           call.factors)}})

\* The rows of investment_decisions a call can find.
DecisionPrices == {RZero, Q(100, 1), Q(200, 1)}
DecisionQuantities == {Q(-5, 1), RZero, Q(10, 1)}
HoldingPeriods == {-365, 0, 365}
InvestmentDecisions ==
    {[asset_type |-> t, asset_symbol |-> s, price |-> p, quantity |-> q,
      holding_period |-> h, macro_adjustment |-> m] :
       t \in {"stock", "commodity", "bond"}, s \in {"AAPL", "oil", "XYZ"},
       p \in DecisionPrices, q \in DecisionQuantities, h \in HoldingPeriods,
       m \in {RZero, Q(1, 10)}}

\* A call of analyze_investment_decision: the decision id is not stored, or it
\* is the id of one of the decisions.
InvInit ==
    \E enabled \in BOOLEAN,
       decision \in {<<>>} \cup {<<d>> : d \in InvestmentDecisions},
       n \in 0..MaxRelatedEvents, sd \in SentimentInputs, fl \in FactorLists :
      inv = [pc |-> "call", enabled |-> enabled, decision |-> decision,
             n_events |-> n, sentiment_data |-> sd, factors |-> fl,
             result |-> <<>>, attribution_results |-> <<>>]

AnalyzeDecision ==
    /\ inv.pc = "call"
    /\ \E r \in {AnalyzeInvestmentDecision(inv)} :
          inv' = [inv EXCEPT !.pc = "done", !.result = r.result,
                             !.attribution_results = r.attribution_results]
    /\ UNCHANGED <<attr, ident, impact, corr, pred, kw, adj, store, runs, similar, main>>

InitInv == InvInit /\ attr = Idle /\ ident = Idle /\ impact = Idle
           /\ corr = Idle /\ pred = Idle /\ kw = Idle /\ adj = Idle
           /\ store = Idle /\ runs = Idle /\ similar = Idle /\ main = Idle
NextInv == AnalyzeDecision
SpecInv == InitInv /\ [][NextInv]_vars

\* The call has nothing to analyse: attribution is disabled, the decision id
\* is not found, or the asset has no current price.
NothingToAnalyse ==
    \/ ~inv.enabled
    \/ inv.decision = <<>>
    \/ /\ inv.decision # <<>>
       /\ ~(\/ /\ inv.decision[1].asset_type = "stock"
               /\ inv.decision[1].asset_symbol \in {"AAPL", "MSFT", "AMZN", "GOOGL", "META"}
            \/ /\ inv.decision[1].asset_type = "commodity"
               /\ inv.decision[1].asset_symbol \in {"oil", "gold", "copper", "wheat", "corn"})

\* C29: analyze_investment_decision returns an empty result and persists
\* nothing when attribution is disabled, the decision id is not found or the
\* asset has no current price; a returned result has been handed to the save
\* step exactly once, its excess_return is percent_return - benchmark_return,
\* its percent_return is 0 when the initial value is <= 0 and its
\* annualized_return is 0 when the holding period is <= 0 days.
C29_DecisionAnalysisResult ==
    inv.pc = "done" =>
       IF NothingToAnalyse
       THEN inv.result = <<>> /\ inv.attribution_results = <<>>
       ELSE /\ Len(inv.result) = 1
            /\ inv.attribution_results = <<inv.result[1]>>
            /\ inv.result[1].excess_return =
                 RSub(inv.result[1].percent_return, inv.result[1].benchmark_return)
            /\ RLe(RMul(inv.decision[1].price, inv.decision[1].quantity), RZero) =>
                 RIsZero(inv.result[1].percent_return)
            /\ inv.decision[1].holding_period <= 0 =>
                 RIsZero(inv.result[1].annualized_return)

C29_Witness ==
    /\ inv.pc = "done"
    /\ Len(inv.result) = 1
    /\ Len(inv.attribution_results) = 1
    /\ RLt(RMul(inv.decision[1].price, inv.decision[1].quantity), RZero)
    /\ inv.decision[1].holding_period < 0
    /\ ~RIsZero(inv.result[1].absolute_return)
    /\ ~RIsZero(inv.result[1].excess_return)

(***************************************************************************)
(* Pipeline driver (main.py).                                              *)
(*                                                                         *)
(* main.ran is the history of the stage calls main has made, each with the *)
(* value the stage returned.  A stage returns False when one of its        *)
(* enabled steps raises, which is the environment's choice.                *)
(***************************************************************************)
Stages == <<"fetch", "analyze", "integrate", "attribution">>
StageSet == {Stages[i] : i \in DOMAIN Stages}

\* The branch main takes (lines 222-241): the stage of the first *-only flag
\* that is set, or the full pipeline.
Branch(args) ==
    IF args.fetch_only THEN "fetch"
    ELSE IF args.analyze_only THEN "analyze"
    ELSE IF args.integrate_only THEN "integrate"
    ELSE IF args.attribution_only THEN "attribution"
    ELSE "full"

\* fetch_data, analyze_data, integrate_models, perform_attribution (lines
\* 76-207): True unless an enabled step raised.
StageReturns(config, stage, raised) == ~(config[stage] /\ raised)

\* Mutant of NextStage: the next stage is called whatever the stage returned.
NextStageIgnoringFailure(stage, returned) ==
    CASE stage = "fetch" -> "analyze"
      [] stage = "analyze" -> "integrate"
      [] stage = "integrate" -> "attribution"
      [] OTHER -> "end"

\* The nested ifs of the full pipeline (lines 235-241): what main does after
\* a stage has returned.
NextStage(stage, returned) ==
    IF ~returned THEN "end"
    ELSE CASE stage = "fetch" -> "analyze"
           [] stage = "analyze" -> "integrate"
           [] stage = "integrate" -> "attribution"
           [] OTHER -> "end"

\* A start of main with its command-line flags and the configuration's
\* enabled switches, per stage.
MainInit ==
    \E fetch_only, analyze_only, integrate_only, attribution_only \in BOOLEAN,
       config \in [StageSet -> BOOLEAN] :
      main = [pc |-> "start",
              args |-> [fetch_only |-> fetch_only, analyze_only |-> analyze_only,
                        integrate_only |-> integrate_only,
                        attribution_only |-> attribution_only],
              config |-> config, ran |-> <<>>]

\* Lines 211-222: logging, load_config and initialize_database, which exits
\* the process on failure, then the branch on the flags.
Setup ==
    /\ main.pc = "start"
    /\ \E ok \in BOOLEAN :
          main' = [main EXCEPT
                     !.pc = IF ~ok THEN "exit"
                            ELSE IF Branch(main.args) = "full" THEN "fetch"
                            ELSE Branch(main.args)]
    /\ UNCHANGED <<attr, ident, impact, corr, pred, kw, adj, store, runs, similar, inv>>

\* main calls a stage and acts on what it returns.
CallStage(stage) ==
    /\ main.pc = stage
    /\ \E raised \in BOOLEAN :
          LET returned == StageReturns(main.config, stage, raised)
          IN  main' = [main EXCEPT
                         !.ran = Append(@, [stage |-> stage, returned |-> returned]),
                         !.pc = IF Branch(main.args) = "full"
                                THEN NextStage(stage, returned)
                                ELSE "end"]
    /\ UNCHANGED <<attr, ident, impact, corr, pred, kw, adj, store, runs, similar, inv>>

FetchData == CallStage("fetch")
AnalyzeData == CallStage("analyze")
IntegrateModels == CallStage("integrate")
PerformAttribution == CallStage("attribution")

\* Line 243: the closing log line.
Finish ==
    /\ main.pc = "end"
    /\ main' = [main EXCEPT !.pc = "done"]
    /\ UNCHANGED <<attr, ident, impact, corr, pred, kw, adj, store, runs, similar, inv>>

InitMain == MainInit /\ attr = Idle /\ ident = Idle /\ impact = Idle
            /\ corr = Idle /\ pred = Idle /\ kw = Idle /\ adj = Idle
            /\ store = Idle /\ runs = Idle /\ similar = Idle /\ inv = Idle
NextMain ==
    \/ Setup
    \/ FetchData
    \/ AnalyzeData
    \/ IntegrateModels
    \/ PerformAttribution
    \/ Finish
SpecMain == InitMain /\ [][NextMain]_vars

\* No *-only flag is set.
FullRun ==
    /\ ~main.args.fetch_only /\ ~main.args.analyze_only
    /\ ~main.args.integrate_only /\ ~main.args.attribution_only

\* The flags that are set, as stage names.
FlaggedStages ==
    {s \in StageSet :
       \/ s = "fetch" /\ main.args.fetch_only
       \/ s = "analyze" /\ main.args.analyze_only
       \/ s = "integrate" /\ main.args.integrate_only
       \/ s = "attribution" /\ main.args.attribution_only}

\* C30: in the full run the stages are called in the order fetch, analyze,
\* integrate, attribution, each only after every earlier stage has returned
\* success, and the run goes on to the next stage after a success; with a
\* *-only flag exactly one stage is called, the stage of that flag.
C30_StagesInOrderAfterSuccess ==
    main.pc # "idle" =>
       IF FullRun
       THEN /\ Len(main.ran) <= 4
            /\ \A i \in DOMAIN main.ran :
                  /\ main.ran[i].stage = Stages[i]
                  /\ \A j \in 1..(i - 1) : main.ran[j].returned
            /\ (main.pc = "done" /\ main.ran # <<>>) =>
                  \/ Len(main.ran) = 4
                  \/ ~main.ran[Len(main.ran)].returned
       ELSE /\ Len(main.ran) <= 1
            /\ \A i \in DOMAIN main.ran : main.ran[i].stage \in FlaggedStages
            /\ Cardinality(FlaggedStages) = 1 =>
                  \A i \in DOMAIN main.ran : FlaggedStages = {main.ran[i].stage}
            /\ main.pc = "done" => Len(main.ran) = 1

C30_Witness ==
    /\ main.pc = "done"
    /\ FullRun
    /\ Len(main.ran) = 3
    /\ main.ran[1].returned /\ main.ran[2].returned /\ ~main.ran[3].returned
    /\ ~main.config["fetch"]

=============================================================================
